---- MODULE Spec2Model ----
(***************************************************************************)
(* Verification model of the Ouroboros runtime.                            *)
(*                                                                         *)
(*   SpecLoop     ouroboros/loop.py     run_llm_loop and its tool executor *)
(*   SpecLock     supervisor/main.py    _acquire_singleton_lock            *)
(*   SpecGit      ouroboros/agent.py    git.lock and the git tools         *)
(*   SpecUpdates  supervisor/main.py    update polling and dedup in run()  *)
(*   SpecChat     supervisor/main.py    _process_telegram_update, threads  *)
(*   SpecSup      supervisor/main.py    main loop, shutdown, crash, restart*)
(*   SpecEffort   ouroboros/loop.py     reasoning effort over the rounds   *)
(*   SpecResolve  ouroboros/llm.py      ProviderConfig.resolve             *)
(*   SpecOAuth    ouroboros/auth/oauth.py PKCE flow of OAuthClient         *)
(*   SpecState    supervisor/main.py    writers of the state snapshot      *)
(*   SpecBudget   ouroboros/loop.py     budget guard, self-check, long runs*)
(*   SpecInject   ouroboros/loop.py     drain of injected owner messages   *)
(*   SpecEvents   supervisor/main.py    _drain_worker_events               *)
(*   SpecIter     supervisor/main.py    one iteration of the main loop     *)
(*   SpecOwner    supervisor/main.py    commands and dispatch of owner text*)
(*   SpecLockAlone supervisor/main.py   lock of a supervisor alone         *)
(*   FairSpecGit  ouroboros/agent.py    git.lock with killed workers       *)
(*   FairSpecTerm ouroboros/loop.py     run_llm_loop, unbounded rounds     *)
(*   SpecAgent    ouroboros/agent.py    usage of the llm_usage event       *)
(*                                                                         *)
(* Each specification drives its own group of variables and leaves the     *)
(* other groups at their initial values.                                   *)
(***************************************************************************)
EXTENDS Integers, Sequences, FiniteSets, TLC

VARIABLES
  \* ---- run_llm_loop (ouroboros/loop.py) ----
  messages,        \* the conversation buffer
  incoming,        \* incoming_messages queue (owner messages to inject)
  injected_total,  \* how many owner messages were ever put on the queue
  round_idx,
  pc,              \* position of the loop thread
  attempt,         \* failed attempts of the current round's LLM call
  backoff,         \* seconds slept before the current attempt
  msg,             \* the response message of the current round (NoMsg = None)
  accumulated,     \* accumulated_usage
  round_events,    \* the llm_round records appended to events.jsonl
  active_model,
  active_effort,
  budget,          \* budget_remaining_usd (NoBudget = None), in cost units
  tool_calls,      \* tool calls of the current round
  can_parallel,
  exec,            \* per call: state of its _execute_with_timeout
  handler,         \* per call: state of the handler thread (_execute_single_tool)
  res,             \* per call: what _execute_with_timeout returns
  order,           \* indices of the latest tool round in the order they completed
  closure_calls,   \* LLM calls made with tools=None
  ret,             \* the value returned by run_llm_loop
  \* ---- singleton lock (supervisor/main.py) ----
  lock_file,       \* locks/supervisor_main.lock: NoFile or [inode, pid]
  sup_pc,          \* per supervisor process: position in run()
  existing_pid,    \* per supervisor process: the pid it read from the lock file
  lock_fd,         \* per supervisor process: inode its descriptor refers to (0 = none)
  \* ---- git lock (ouroboros/agent.py) ----
  git_lock,        \* locks/git.lock exists
  git_pc,          \* per worker: position in its git tool
  git_op,          \* per worker: the git tool it runs
  git_step,        \* per worker: index of the tool's current step
  git_ret,         \* per worker: how its latest call ended: "none", "OK", the failed step or MustBeNonEmpty
                   \* or FileNotFoundError
  git_log,         \* per worker: the steps its latest call has run, in order
  git_text,        \* per worker: the text argument of its latest call
  \* ---- update polling (supervisor/main.py) ----
  offset,              \* tg_offset
  recent_update_ids,   \* the dedup set, as disjoint runs << lo, hi >> of ids
  recent_update_order, \* the dedup deque, as runs << lo, hi >> in insertion order
  owner_id,            \* state["owner_id"], 0 = not bound yet
  dispatched,          \* how often each id was handed to _dispatch_owner_message
  evicted,             \* how often each id was dropped from the dedup set
  next_update_id,      \* the id the transport gives its next new update
  first_updates,       \* the updates that arrived alone, by id
  redelivered,         \* the polls that returned an update delivered before
  \* ---- owner messages (supervisor/main.py) ----
  state_file,      \* state.json: owner_id and owner_chat_id, 0 = not set
  delivered,       \* updates handed to _process_telegram_update so far
  last_update,     \* what _process_telegram_update did with the latest update
  first_seen,      \* sender of the first update that carried a sender and a chat
  chat_threads,    \* per dispatched message, in delivery order: state of its thread
  begun,           \* the threads in the order they entered handle_chat_direct
  ended,           \* the threads in the order they left handle_chat_direct
  \* ---- supervisor lifetime (supervisor/main.py) ----
  run_pc,          \* position of the supervisor process in run()
  stop_flag,       \* stop_flag["stop"]
  lock_present,    \* locks/supervisor_main.lock exists
  run_offset,      \* the local offset of run()
  saved_offset,    \* tg_offset in the state file
  handled_updates, \* updates the main loop has processed
  task_type,       \* per created task, in creation order: "chat" or "evolution"
  PENDING,         \* queue.PENDING, as the set of its task ids
  RUNNING,         \* workers.RUNNING, as the set of its task ids
  terminal,        \* tasks with a task_done event in the log
  snapshot,        \* the queue snapshot on disk
  chat_handling,   \* tasks whose chat thread is in handle_chat_direct
  evolution_enabled, \* evolution_mode_enabled in the state file
  restarts,        \* restarts of the supervisor after a crash
  failed_step,     \* the step of run() that raised, "none" if none did
  last_reply,      \* head of the latest reply of _handle_command, "none" if none
  \* ---- provider resolution (ouroboros/llm.py) ----
  llm_model,  \* the model id of the request, as typed
  llm_selector,  \* OUROBOROS_LLM_PROVIDER, as typed
  llm_keys,  \* the providers whose key variable is set
  llm_result,  \* what ProviderConfig.resolve gave for the request
  \* ---- PKCE flow of one OAuthClient (ouroboros/auth/oauth.py) ----
  oa_verifier,  \* self._verifier
  oa_challenge,  \* self._challenge
  oa_state,  \* self._state
  oa_issued,  \* the states put into authorization URLs, in call order
  oa_requests,  \* the token requests posted to the token endpoint
  oa_last,  \* outcome of the latest exchange_code_for_tokens call
  oa_fresh,  \* random values drawn so far
  oa_calls,  \* method calls made on the client
  \* ---- the state file and its writers (supervisor/main.py) ----
  st_file,  \* state.json on disk
  main_st,  \* the st of the main loop thread between load_state and save_state
  main_update,  \* the field the main loop thread is changing
  spent_total,  \* sum of the costs passed to update_budget
  st_ops,  \* state updates started so far
  \* ---- worker event queue (supervisor/main.py) ----
  ev_q,  \* the event queue: sequence numbers of the queued events
  ev_put,  \* events put so far
  ev_pc,  \* the main loop: "idle" or inside _drain_worker_events
  ev_handled,  \* handled of the current or latest drain call
  ev_last,  \* sequence number of the latest dispatched event
  ev_singles,  \* events put one at a time so far
  ev_burst,  \* the burst has been put
  \* ---- one iteration of the main loop (supervisor/main.py) ----
  it_pc,  \* position of the main loop
  it_batch,  \* outcomes of the updates of the batch still to process
  it_size,  \* number of updates in the polled batch
  it_log,  \* how the updates processed in this iteration ended
  it_call,  \* index in IterationCalls of the call the iteration is at
  it_iters,  \* iterations completed
  it_cause,  \* the call whose exception ended the loop
  it_errors,  \* error records written to supervisor.jsonl
  \* ---- an owner message and its command (supervisor/main.py) ----
  om_text,  \* text of the owner's message
  om_caption,  \* its caption
  om_image,  \* whether an image came with it
  om_out,  \* what _process_telegram_update made of it
  \* ---- control flow of run_llm_loop over any number of rounds (ouroboros/loop.py) ----
  tm,  \* the loop: where it stands, round, attempt, cost, budget, result
  \* ---- handle_task and _llm_with_tools (ouroboros/agent.py) ----
  ag,  \* the task: where it stands, round, attempt, usages, events
  \* ---- reasoning effort of the LLM calls (ouroboros/loop.py) ----
  last_call,       \* the latest llm.chat call: its round, its kind, its model,
                   \* its reasoning_effort and that of the call before it
  code_round       \* the first round in which a code tool completed (0: none)

loopVars == << messages, incoming, injected_total, round_idx, pc, attempt, backoff,
               msg, accumulated, round_events, active_model, active_effort, budget,
               tool_calls, can_parallel, exec, handler, res, order,
               closure_calls, ret >>

lockVars == << lock_file, sup_pc, existing_pid, lock_fd >>

gitVars == << git_lock, git_pc, git_op, git_step, git_ret, git_log, git_text >>

updVars == << offset, recent_update_ids, recent_update_order, owner_id, dispatched,
              evicted, next_update_id, first_updates, redelivered >>

chatVars == << state_file, delivered, last_update, first_seen, chat_threads, begun, ended >>

supVars == << run_pc, stop_flag, lock_present, run_offset, saved_offset,
              handled_updates, task_type, PENDING, RUNNING, terminal, snapshot,
              chat_handling, evolution_enabled, restarts, failed_step,
              last_reply >>

resolveVars == << llm_model, llm_selector, llm_keys, llm_result >>

oauthVars == << oa_verifier, oa_challenge, oa_state, oa_issued, oa_requests, oa_last, oa_fresh, oa_calls >>

stateVars == << st_file, main_st, main_update, spent_total, st_ops >>

evVars == << ev_q, ev_put, ev_pc, ev_handled, ev_last, ev_singles, ev_burst >>

iterVars == << it_pc, it_batch, it_size, it_log, it_call, it_iters, it_cause, it_errors >>

ownerVars == << om_text, om_caption, om_image, om_out >>

termVars == << tm >>

agentVars == << ag >>

vars == << loopVars, lockVars, gitVars, updVars, chatVars, supVars, resolveVars, oauthVars, stateVars, evVars, iterVars, ownerVars, termVars, agentVars, last_call, code_round >>

\* what the steps of one component leave alone
notLoop == << lockVars, gitVars, updVars, chatVars, supVars, resolveVars, oauthVars, stateVars, evVars, iterVars, ownerVars, termVars, agentVars, last_call, code_round >>
notLock == << loopVars, gitVars, updVars, chatVars, supVars, resolveVars, oauthVars, stateVars, evVars, iterVars, ownerVars, termVars, agentVars, last_call, code_round >>
notGit == << loopVars, lockVars, updVars, chatVars, supVars, resolveVars, oauthVars, stateVars, evVars, iterVars, ownerVars, termVars, agentVars, last_call, code_round >>
notUpd == << loopVars, lockVars, gitVars, chatVars, supVars, resolveVars, oauthVars, stateVars, evVars, iterVars, ownerVars, termVars, agentVars, last_call, code_round >>
notChat == << loopVars, lockVars, gitVars, updVars, supVars, resolveVars, oauthVars, stateVars, evVars, iterVars, ownerVars, termVars, agentVars, last_call, code_round >>
notSup == << loopVars, lockVars, gitVars, updVars, chatVars, resolveVars, oauthVars, stateVars, evVars, iterVars, ownerVars, termVars, agentVars, last_call, code_round >>
notEffort == << lockVars, gitVars, updVars, chatVars, supVars, resolveVars, oauthVars, stateVars, evVars, iterVars, ownerVars, termVars, agentVars >>
notAgent == << loopVars, lockVars, gitVars, updVars, chatVars, supVars, resolveVars, oauthVars, stateVars, evVars, iterVars, ownerVars, termVars, last_call, code_round >>
notTerm == << loopVars, lockVars, gitVars, updVars, chatVars, supVars, resolveVars, oauthVars, stateVars, evVars, iterVars, ownerVars, agentVars, last_call, code_round >>
notOwner == << loopVars, lockVars, gitVars, updVars, chatVars, supVars, resolveVars, oauthVars, stateVars, evVars, iterVars, termVars, agentVars, last_call, code_round >>
notIter == << loopVars, lockVars, gitVars, updVars, chatVars, supVars, resolveVars, oauthVars, stateVars, evVars, ownerVars, termVars, agentVars, last_call, code_round >>
notEvents == << loopVars, lockVars, gitVars, updVars, chatVars, supVars, resolveVars, oauthVars, stateVars, iterVars, ownerVars, termVars, agentVars, last_call, code_round >>
notState == << loopVars, lockVars, gitVars, updVars, chatVars, supVars, resolveVars, oauthVars, evVars, iterVars, ownerVars, termVars, agentVars, last_call, code_round >>
notOAuth == << loopVars, lockVars, gitVars, updVars, chatVars, supVars, resolveVars, stateVars, evVars, iterVars, ownerVars, termVars, agentVars, last_call, code_round >>
notResolve == << loopVars, lockVars, gitVars, updVars, chatVars, supVars, oauthVars, stateVars, evVars, iterVars, ownerVars, termVars, agentVars, last_call, code_round >>

----------------------------------------------------------------------------
(* Bounds of the model *)
MaxRounds == 2        \* rounds of one run_llm_loop invocation
MaxCalls == 2         \* tool calls the assistant emits in one round
MaxInjected == 1      \* owner messages injected while the task runs

(* Program constants *)
MaxRetries == 3
SoftCheckInterval == 20
ToolResultCap == 3000
KeepRecent == 4
MaxParallelWorkers == 8
BackoffCap == 30

NoBudget == -1
NoMsg == [content_len |-> -1, tool_calls |-> <<>>]
NoRet == [kind |-> "none", len |-> 0]

READ_ONLY_PARALLEL_TOOLS ==
  {"repo_read", "repo_list", "drive_read", "drive_list",
   "web_search", "codebase_digest", "chat_history"}

\* tools.CODE_TOOLS of the tool registry
CODE_TOOLS == {"repo_write_commit", "repo_commit_push", "claude_code_edit"}

\* the read-only tools a parallel round of the model calls, in emission order
ParallelNames == << "repo_read", "repo_list", "web_search", "drive_read" >>

\* tools.get_timeout(name), seconds
get_timeout(name) == IF name \in CODE_TOOLS THEN 600 ELSE 120

\* what a handler hands back in time: a result string of 3001 characters
\* (errors reach the loop as TOOL_TIMEOUT results)
HandlerOutcomes == { [is_error |-> FALSE, len |-> 3001] }

\* usage records an LLM call reports (cost in budget units)
Usages ==
  { [prompt_tokens |-> 1, completion_tokens |-> 0, cost |-> 3],
    [prompt_tokens |-> 2, completion_tokens |-> 1, cost |-> 4] }

\* budget_remaining_usd: not set, spent, and a budget that a call of cost 3
\* uses by half and a call of cost 4 by more
Budgets == {NoBudget, 0, 6}

Efforts == {"none", "minimal", "low", "medium", "high", "xhigh"}

\* llm.model_profile(name)
ModelProfile(name) ==
  CASE name = "code_task" -> [model |-> "m_code", effort |-> "high"]
    [] name = "light"     -> [model |-> "m_light", effort |-> "low"]
    [] OTHER              -> [model |-> "m_default", effort |-> "medium"]

----------------------------------------------------------------------------
(* Pure helpers *)

RECURSIVE Digits(_)
Digits(n) == IF n < 10 THEN 1 ELSE 1 + Digits(n \div 10)

RECURSIVE Pow2(_)
Pow2(n) == IF n = 0 THEN 1 ELSE 2 * Pow2(n - 1)

Min(a, b) == IF a <= b THEN a ELSE b

reasoning_rank(value) ==
  CASE value = "none" -> 0
    [] value = "minimal" -> 1
    [] value = "low" -> 2
    [] value = "medium" -> 3
    [] value = "high" -> 4
    [] value = "xhigh" -> 5
    [] OTHER -> 3

normalize_reasoning_effort(value, default) ==
  IF value \in Efforts THEN value ELSE default

\* len(_truncate_tool_result(s)) for len(s) = n
_truncate_tool_result(n) ==
  IF n <= ToolResultCap THEN n ELSE ToolResultCap + 28 + Digits(n)

\* length of the TOOL_TIMEOUT result string
TimeoutResultLen(name) == 171 + Len(name) + Digits(get_timeout(name))

add_usage(total, usage) ==
  [total EXCEPT !.prompt_tokens = @ + usage.prompt_tokens,
                !.completion_tokens = @ + usage.completion_tokens,
                !.cost = IF usage.cost # 0 THEN @ + usage.cost ELSE @]

\* the effort set to the target whatever its rank
_maybe_raise_effort_Set(effort, target) == target

\* loop.py 189-193
_maybe_raise_effort(effort, target) ==
  LET t == normalize_reasoning_effort(target, effort)
  IN IF reasoning_rank(t) > reasoning_rank(effort) THEN t ELSE effort

\* the profile switched only when the code profile's effort is the higher
_switch_to_code_profile_ForEffort(model, effort) ==
  LET code_cfg == ModelProfile("code_task")
  IN IF reasoning_rank(code_cfg.effort) > reasoning_rank(effort)
     THEN << code_cfg.model, code_cfg.effort >>
     ELSE << model, effort >>

\* _switch_to_code_profile: the new << model, effort >>
_switch_to_code_profile(model, effort) ==
  LET code_cfg == ModelProfile("code_task")
  IN IF code_cfg.model # model \/ reasoning_rank(code_cfg.effort) > reasoning_rank(effort)
     THEN << code_cfg.model,
             IF reasoning_rank(code_cfg.effort) > reasoning_rank(effort)
             THEN code_cfg.effort ELSE effort >>
     ELSE << model, effort >>

(* Messages: role, kind of content, tool_call_id / sequence number, tool_calls, length *)
Message(role, kind, id, calls, len) ==
  [role |-> role, kind |-> kind, id |-> id, calls |-> calls, len |-> len]

NoId == << 0, 0 >>
PromptMsgs == << Message("system", "prompt", NoId, <<>>, 1),
                 Message("user", "task", NoId, <<>>, 1) >>
OwnerMsg(n) == Message("user", "owner", << 0, n >>, <<>>, 1)
SelfCheckMsg == Message("system", "self_check", NoId, <<>>, 1)
AssistantMsg(calls) == Message("assistant", "assistant", NoId, calls, 1)
ToolMsg(id, len) == Message("tool", "result", id, <<>>, len)
BudgetLimitMsg == Message("system", "budget_limit", NoId, <<>>, 1)
BudgetInfoMsg == Message("system", "budget_info", NoId, <<>>, 1)

\* length of "[compacted: <tool> -> <bytes> bytes]"
CompactedLen == 40

\* positions of the assistant messages that carry tool calls
ToolRounds(msgs) ==
  {i \in 1..Len(msgs) : msgs[i].role = "assistant" /\ msgs[i].calls # <<>>}

\* compact_tool_history(messages, keep_recent): tool results older than the
\* last keep_recent assistant-with-tool-calls groups become one-line summaries
compact_tool_history(msgs, keep_recent) ==
  LET rounds == ToolRounds(msgs)
      recent == {i \in rounds : Cardinality({j \in rounds : j >= i}) <= keep_recent}
      cut == IF recent = {} THEN Len(msgs) + 1
             ELSE CHOOSE i \in recent : \A j \in recent : i <= j
  IN [i \in 1..Len(msgs) |->
        IF i < cut /\ msgs[i].role = "tool"
        THEN [msgs[i] EXCEPT !.kind = "compacted", !.len = CompactedLen]
        ELSE msgs[i]]

----------------------------------------------------------------------------
(* Singleton lock of the supervisor: _acquire_singleton_lock, run() *)

\* the supervisor processes started on one runtime root; a process's pid is
\* its number
Sups == {1, 2}

\* pids found in a left-over lock file that belong to no live supervisor
DeadPids == {9}

NoFile == [inode |-> 0, pid |-> 0]

\* a lock file left behind by an earlier supervisor
StaleFile == [inode |-> 9, pid |-> 9]

\* _pid_alive(pid): the pid exists, its command line is supervisor.main and
\* it is no zombie; a supervisor process is alive from its start to its exit
ProcessAlive(pid, pcs) ==
  /\ pid \in Sups
  /\ pcs[pid] \notin {"not_started", "exited", "crashed"}

_pid_alive(pid, pcs) == pid > 0 /\ ProcessAlive(pid, pcs)

\* main.py 402-407: the process starts and reaches _acquire_singleton_lock
SupStart(p) ==
  /\ sup_pc[p] = "not_started"
  /\ UNCHANGED notLock
  /\ sup_pc' = [sup_pc EXCEPT ![p] = "check_exists"]
  /\ UNCHANGED << lock_file, existing_pid, lock_fd >>

\* main.py 367: if lock_path.exists()
LockCheckExists(p) ==
  /\ sup_pc[p] = "check_exists"
  /\ UNCHANGED notLock
  /\ sup_pc' = [sup_pc EXCEPT ![p] = IF lock_file # NoFile THEN "read_pid" ELSE "open"]
  /\ UNCHANGED << lock_file, existing_pid, lock_fd >>

\* main.py 368-371: the pid in the file; an empty, unreadable or vanished
\* file reads as 0
LockReadPid(p) ==
  /\ sup_pc[p] = "read_pid"
  /\ UNCHANGED notLock
  /\ existing_pid' = [existing_pid EXCEPT ![p] = lock_file.pid]
  /\ sup_pc' = [sup_pc EXCEPT ![p] = "check_alive"]
  /\ UNCHANGED << lock_file, lock_fd >>

\* main.py 372-373: a live owner makes the caller give up
LockCheckAlive(p) ==
  /\ sup_pc[p] = "check_alive"
  /\ UNCHANGED notLock
  /\ sup_pc' = [sup_pc EXCEPT ![p] =
                  IF _pid_alive(existing_pid[p], sup_pc) THEN "refused" ELSE "unlink"]
  /\ UNCHANGED << lock_file, existing_pid, lock_fd >>

\* main.py 374-377: the stale file is removed; a failing unlink gives up
LockUnlinkStale(p) ==
  /\ sup_pc[p] = "unlink"
  /\ UNCHANGED notLock
  /\ IF lock_file # NoFile
     THEN /\ lock_file' = NoFile
          /\ sup_pc' = [sup_pc EXCEPT ![p] = "open"]
     ELSE /\ sup_pc' = [sup_pc EXCEPT ![p] = "refused"]
          /\ UNCHANGED lock_file
  /\ UNCHANGED << existing_pid, lock_fd >>

\* main.py 379-380: os.open with O_CREAT | O_EXCL creates the empty file, or
\* raises FileExistsError, which nothing catches
LockOpenExcl(p) ==
  /\ sup_pc[p] = "open"
  /\ UNCHANGED notLock
  /\ IF lock_file = NoFile
     THEN /\ lock_file' = [inode |-> p, pid |-> 0]
          /\ lock_fd' = [lock_fd EXCEPT ![p] = p]
          /\ sup_pc' = [sup_pc EXCEPT ![p] = "write_pid"]
     ELSE /\ sup_pc' = [sup_pc EXCEPT ![p] = "crashed"]
          /\ UNCHANGED << lock_file, lock_fd >>
  /\ UNCHANGED existing_pid

\* main.py 381-384: the pid is written through the descriptor (into the file
\* the descriptor refers to, linked or not) and the lock is returned
LockWritePid(p) ==
  /\ sup_pc[p] = "write_pid"
  /\ UNCHANGED notLock
  /\ lock_file' = IF lock_file.inode = lock_fd[p]
                  THEN [lock_file EXCEPT !.pid = p] ELSE lock_file
  /\ sup_pc' = [sup_pc EXCEPT ![p] = "holding"]
  /\ UNCHANGED << existing_pid, lock_fd >>

\* main.py 408-418: without the lock the process logs and returns
SupExitRefused(p) ==
  /\ sup_pc[p] = "refused"
  /\ UNCHANGED notLock
  /\ sup_pc' = [sup_pc EXCEPT ![p] = "exited"]
  /\ UNCHANGED << lock_file, existing_pid, lock_fd >>

\* main.py 597-614 and 387-399: shutdown after a signal; _release_singleton_lock
\* closes the descriptor and unlinks whatever file is at the path
SupShutdown(p) ==
  /\ sup_pc[p] = "holding"
  /\ UNCHANGED notLock
  /\ lock_file' = NoFile
  /\ lock_fd' = [lock_fd EXCEPT ![p] = 0]
  /\ sup_pc' = [sup_pc EXCEPT ![p] = "exited"]
  /\ UNCHANGED existing_pid

\* the process is killed while it holds the lock; the file stays
SupKilled(p) ==
  /\ sup_pc[p] = "holding"
  /\ UNCHANGED notLock
  /\ lock_fd' = [lock_fd EXCEPT ![p] = 0]
  /\ sup_pc' = [sup_pc EXCEPT ![p] = "crashed"]
  /\ UNCHANGED << lock_file, existing_pid >>

NextLock ==
  \E p \in Sups :
     \/ SupStart(p)
     \/ LockCheckExists(p)
     \/ LockReadPid(p)
     \/ LockCheckAlive(p)
     \/ LockUnlinkStale(p)
     \/ LockOpenExcl(p)
     \/ LockWritePid(p)
     \/ SupExitRefused(p)
     \/ SupShutdown(p)
     \/ SupKilled(p)

----------------------------------------------------------------------------
(* run_llm_loop *)

NoCalls == <<>>

\* the tool calls of a response: names in emission order, ids unique per round
Calls(round, names) ==
  [i \in 1..Len(names) |-> [id |-> << round, i >>, name |-> names[i]]]

\* the tool-call lists the assistant emits in the model: one serial call, a
\* serial pair with a code tool, and read-only lists of 2..MaxCalls calls
CallNames ==
  { << "run_shell" >>, << "repo_read", "repo_write_commit" >> }
    \cup { SubSeq(ParallelNames, 1, n) : n \in 2..Min(MaxCalls, Len(ParallelNames)) }

\* an owner message arrives on the injection queue while the task runs
InjectOwnerMessage ==
  /\ pc # "done"
  /\ UNCHANGED notLoop
  /\ injected_total < MaxInjected
  /\ injected_total' = injected_total + 1
  /\ incoming' = Append(incoming, injected_total + 1)
  /\ UNCHANGED << messages, round_idx, pc, attempt, backoff, msg, accumulated,
                  round_events, active_model, active_effort, budget, tool_calls,
                  can_parallel, exec, handler, res, order, closure_calls, ret >>

\* the owner messages appended latest first
DrainIncoming_Reversed(msgs, q) ==
  msgs \o [k \in 1..Len(q) |-> OwnerMsg(q[Len(q) + 1 - k])]

\* the owner messages put in front of the last message of the conversation
DrainIncoming_BeforeLast(msgs, q) ==
  IF q = << >> THEN msgs
  ELSE SubSeq(msgs, 1, Len(msgs) - 1) \o [k \in 1..Len(q) |-> OwnerMsg(q[k])]
         \o << msgs[Len(msgs)] >>

\* loop.py 207-212: the owner messages waiting in the queue, as user messages
\* in queue order
DrainIncoming(msgs, q) == msgs \o [k \in 1..Len(q) |-> OwnerMsg(q[k])]

\* a self-check in every round after the first
SelfCheck_EveryRound(msgs, round) ==
  IF round > 1 THEN Append(msgs, SelfCheckMsg) ELSE msgs

\* loop.py 215-226: the self-check of a round
SelfCheck(msgs, round) ==
  IF round > 1 /\ round % SoftCheckInterval = 0 THEN Append(msgs, SelfCheckMsg) ELSE msgs

\* loop.py 237-240: effort escalation for long tasks
EscalateEffort(effort, round) ==
  LET e1 == IF round >= 5 THEN _maybe_raise_effort(effort, "high") ELSE effort
  IN IF round >= 10 THEN _maybe_raise_effort(e1, "xhigh") ELSE e1

\* loop.py 204-244: the head of a round up to the LLM call
RoundStart ==
  /\ pc = "round_start"
  /\ UNCHANGED notLoop
  /\ round_idx' = round_idx + 1
  /\ LET drained == DrainIncoming(messages, incoming)
         checked == SelfCheck(drained, round_idx + 1)
     IN messages' = IF round_idx + 1 > 1
                    THEN compact_tool_history(checked, KeepRecent) ELSE checked
  /\ incoming' = <<>>
  /\ active_effort' = EscalateEffort(active_effort, round_idx + 1)
  /\ attempt' = 0
  /\ backoff' = 0
  /\ msg' = NoMsg
  /\ can_parallel' = FALSE
  /\ order' = << >>
  /\ pc' = "llm_call"
  /\ UNCHANGED << injected_total, accumulated, round_events, active_model, budget,
                  tool_calls, exec, handler, res, closure_calls, ret >>

\* the fan-out test without the whitelist
CanParallel_AnyName(calls) == Len(calls) > 1

\* loop.py 309-315
CanParallel(calls) ==
  /\ Len(calls) > 1
  /\ \A i \in 1..Len(calls) : calls[i].name \in READ_ONLY_PARALLEL_TOOLS

\* a reply with a single tool call taken for the final one
IsFinalResponse_AtMostOne(calls) == Len(calls) <= 1

\* loop.py 293: "if not tool_calls", the response is the final one
IsFinalResponse(calls) == calls = <<>>

NoResult == [id |-> NoId, is_error |-> FALSE, len |-> 0]

\* loop.py 251-271 and 289-315: an attempt succeeds
LLMChatOk ==
  /\ pc = "llm_call"
  /\ UNCHANGED notLoop
  /\ \E u \in Usages,
        reply \in {[content_len |-> n, tool_calls |-> NoCalls] : n \in {0, 5}}
           \cup {[content_len |-> 0, tool_calls |-> Calls(round_idx, names)] :
                   names \in CallNames} :
        /\ (reply.tool_calls # NoCalls => round_idx < MaxRounds)
        /\ accumulated' = [add_usage(accumulated, u) EXCEPT !.rounds = @ + 1]
        /\ round_events' = Append(round_events,
               [round |-> round_idx,
                prompt_tokens |-> u.prompt_tokens,
                completion_tokens |-> u.completion_tokens])
        /\ msg' = reply
        /\ IF IsFinalResponse(reply.tool_calls)
           THEN /\ pc' = "done"
                /\ ret' = [kind |-> "final", len |-> reply.content_len]
                /\ UNCHANGED << messages, tool_calls, can_parallel, exec, handler,
                                res, order >>
           ELSE /\ messages' = Append(messages, AssistantMsg(reply.tool_calls))
                /\ tool_calls' = reply.tool_calls
                /\ can_parallel' = CanParallel(reply.tool_calls)
                /\ exec' = [i \in 1..Len(reply.tool_calls) |-> "pending"]
                /\ handler' = [i \in 1..Len(reply.tool_calls) |-> "idle"]
                /\ res' = [i \in 1..Len(reply.tool_calls) |-> NoResult]
                /\ order' = <<>>
                /\ pc' = "tools"
                /\ UNCHANGED ret
  /\ attempt' = 0
  /\ backoff' = 0
  /\ UNCHANGED << incoming, injected_total, round_idx, active_model,
                  active_effort, budget, closure_calls >>

\* the retry test of a loop that gives up after the first failure
HasRetryLeft_Never(a) == FALSE

\* loop.py 249 and 280: "for attempt in range(max_retries)"; after a failed
\* attempt another one follows while attempt < max_retries - 1
HasRetryLeft(a) == a < MaxRetries - 1

\* loop.py 272-287: an attempt raises
LLMChatFail ==
  /\ pc = "llm_call"
  /\ UNCHANGED notLoop
  /\ attempt' = attempt + 1
  /\ IF HasRetryLeft(attempt)
     THEN /\ backoff' = Min(Pow2(attempt) * 2, BackoffCap)
          /\ pc' = "llm_call"
          /\ UNCHANGED ret
     ELSE /\ pc' = "done"
          /\ ret' = [kind |-> "llm_error", len |-> 1]
          /\ UNCHANGED backoff
  /\ UNCHANGED << messages, incoming, injected_total, round_idx, msg, accumulated,
                  round_events, active_model, active_effort, budget, tool_calls,
                  can_parallel, exec, handler, res, order, closure_calls >>

----------------------------------------------------------------------------
(* Tool execution: _execute_with_timeout around _execute_single_tool *)

NCalls == Len(tool_calls)

toolFrame == << incoming, injected_total, round_idx, pc, attempt, backoff, msg,
                accumulated, round_events, active_model, active_effort, budget,
                tool_calls, can_parallel, closure_calls, ret, messages >>

\* executions submitted and not yet returned
InFlight == {i \in 1..NCalls : exec[i] \in {"waiting", "shutdown_wait"}}

\* loop.py 317-332: the next execution may start.  Sequential rounds run the
\* list comprehension, one call after the other; parallel rounds submit every
\* call to a pool of min(len(tool_calls), 8) workers.
MayStart(i) ==
  /\ exec[i] = "pending"
  /\ IF can_parallel
     THEN /\ Cardinality(InFlight) < Min(NCalls, MaxParallelWorkers)
          /\ \A j \in 1..(i - 1) : exec[j] # "pending"
     ELSE \A j \in 1..(i - 1) : exec[j] = "done"

\* loop.py 120-121: executor.submit(_execute_single_tool, ...)
ToolStart(i) ==
  /\ pc = "tools"
  /\ UNCHANGED notLoop
  /\ MayStart(i)
  /\ exec' = [exec EXCEPT ![i] = "waiting"]
  /\ handler' = [handler EXCEPT ![i] = "running"]
  /\ UNCHANGED << res, order >>
  /\ UNCHANGED toolFrame

\* loop.py 52-100 and 123: the handler returns (result string, argument error
\* or handler exception) before the deadline and future.result hands it over;
\* the executor's context exit has nothing left to wait for
ExecReturn(i) ==
  /\ pc = "tools"
  /\ UNCHANGED notLoop
  /\ exec[i] = "waiting"
  /\ handler[i] = "running"
  /\ \E o \in HandlerOutcomes :
        res' = [res EXCEPT ![i] = [id |-> tool_calls[i].id, is_error |-> o.is_error,
                                   len |-> o.len]]
  /\ handler' = [handler EXCEPT ![i] = "finished"]
  /\ exec' = [exec EXCEPT ![i] = "done"]
  /\ order' = Append(order, i)
  /\ UNCHANGED toolFrame

\* loop.py 124-152: the deadline passes with the handler still running; the
\* TOOL_TIMEOUT result is built and the return statement leaves the with block
ExecTimeout(i) ==
  /\ pc = "tools"
  /\ UNCHANGED notLoop
  /\ exec[i] = "waiting"
  /\ handler[i] = "running"
  /\ res' = [res EXCEPT ![i] =
               [id |-> tool_calls[i].id, is_error |-> TRUE,
                len |-> TimeoutResultLen(tool_calls[i].name)]]
  /\ exec' = [exec EXCEPT ![i] = "shutdown_wait"]
  /\ UNCHANGED << handler, order >>
  /\ UNCHANGED toolFrame

\* loop.py 52-100: the handler returns after the deadline; nobody reads its result
HandlerFinishLate(i) ==
  /\ pc = "tools"
  /\ UNCHANGED notLoop
  /\ exec[i] = "shutdown_wait"
  /\ handler[i] = "running"
  /\ handler' = [handler EXCEPT ![i] = "finished"]
  /\ UNCHANGED << exec, res, order >>
  /\ UNCHANGED toolFrame

\* the handler states in which ThreadPoolExecutor.__exit__ lets the caller go
\* on: the with block of loop.py 120 ends in shutdown(wait=True), which joins
\* the worker thread
ShutdownReturns(h) == h = "finished"

\* loop.py 120: leaving the with block after a timeout
ExecShutdown(i) ==
  /\ pc = "tools"
  /\ UNCHANGED notLoop
  /\ exec[i] = "shutdown_wait"
  /\ ShutdownReturns(handler[i])
  /\ exec' = [exec EXCEPT ![i] = "done"]
  /\ order' = Append(order, i)
  /\ UNCHANGED << handler, res >>
  /\ UNCHANGED toolFrame

\* the results in the order the executions completed
CollectResults_ByCompletion(ord, r) == [k \in 1..Len(r) |-> r[ord[k]]]

\* loop.py 318-322 and 333-336: the results list of a round.  The sequential
\* list comprehension and results[idx] = future.result() both fill slot idx
\* with the result of call idx, whatever the completion order `ord`.
CollectResults(ord, r) == [idx \in 1..Len(r) |-> r[idx]]

\* loop.py 339-357: one tool message per result, in the order of the list
ToolMessages(results) ==
  [k \in 1..Len(results) |->
     ToolMsg(results[k].id, _truncate_tool_result(results[k].len))]

\* the guard with the whole budget as its threshold
OverHalf_WholeBudget(cost, b) == IF b > 0 THEN cost > b ELSE TRUE

\* loop.py 378-380: budget_pct > 0.5, with budget_pct = 1.0 when the budget
\* is not positive
OverHalf(cost, b) == IF b > 0 THEN 2 * cost > b ELSE TRUE

\* the nudge threshold met at exactly three tenths
OverThreeTenths_Inclusive(cost, b) == IF b > 0 THEN 10 * cost >= 3 * b ELSE TRUE

\* loop.py 393: budget_pct > 0.3
OverThreeTenths(cost, b) == IF b > 0 THEN 10 * cost > 3 * b ELSE TRUE

\* loop.py 338-395: the results are processed in order, the profile and the
\* effort adjusted, and the budget guard decides how the round ends
ProcessResults ==
  /\ pc = "tools"
  /\ UNCHANGED notLoop
  /\ \A i \in 1..NCalls : exec[i] = "done"
  /\ LET results == CollectResults(order, res)
         saw_code_tool == \E k \in 1..NCalls : tool_calls[k].name \in CODE_TOOLS
         error_count == Cardinality({k \in 1..NCalls : results[k].is_error})
         prof == IF saw_code_tool
                 THEN _switch_to_code_profile(active_model, active_effort)
                 ELSE << active_model, active_effort >>
         e2 == IF error_count >= 2 THEN _maybe_raise_effort(prof[2], "high") ELSE prof[2]
         e4 == IF error_count >= 4 THEN _maybe_raise_effort(e2, "xhigh") ELSE e2
         appended == messages \o ToolMessages(results)
     IN /\ active_model' = prof[1]
        /\ active_effort' = e4
        /\ IF budget # NoBudget /\ OverHalf(accumulated.cost, budget)
           THEN /\ messages' = Append(appended, BudgetLimitMsg)
                /\ pc' = "closure_call"
           ELSE /\ messages' =
                     IF /\ budget # NoBudget
                        /\ OverThreeTenths(accumulated.cost, budget)
                        /\ round_idx % 10 = 0
                     THEN Append(appended, BudgetInfoMsg) ELSE appended
                /\ pc' = "round_start"
  /\ tool_calls' = NoCalls
  /\ exec' = <<>>
  /\ handler' = <<>>
  /\ res' = <<>>
  /\ UNCHANGED << incoming, injected_total, round_idx, attempt, backoff, msg,
                  accumulated, round_events, budget, closure_calls, ret,
                  can_parallel, order >>

\* loop.py 384-390: the closing call without tools answers
ClosureChatOk ==
  /\ pc = "closure_call"
  /\ UNCHANGED notLoop
  /\ \E u \in Usages, clen \in {0, 5} :
        /\ accumulated' = add_usage(accumulated, u)
        /\ ret' = IF clen > 0 THEN [kind |-> "closure", len |-> clen]
                  ELSE [kind |-> "finish_reason", len |-> 1]
  /\ closure_calls' = closure_calls + 1
  /\ pc' = "done"
  /\ UNCHANGED << messages, incoming, injected_total, round_idx, attempt, backoff,
                  msg, round_events, active_model, active_effort, budget, tool_calls,
                  can_parallel, exec, handler, res, order >>

\* loop.py 391-392: the closing call raises
ClosureChatFail ==
  /\ pc = "closure_call"
  /\ UNCHANGED notLoop
  /\ closure_calls' = closure_calls + 1
  /\ ret' = [kind |-> "finish_reason", len |-> 1]
  /\ pc' = "done"
  /\ UNCHANGED << messages, incoming, injected_total, round_idx, attempt, backoff,
                  msg, accumulated, round_events, active_model, active_effort, budget,
                  tool_calls, can_parallel, exec, handler, res, order >>

\* the steps of the loop thread, of the LLM and of the timers
LoopStep ==
  \/ RoundStart
  \/ LLMChatOk
  \/ LLMChatFail
  \/ \E i \in 1..NCalls : ToolStart(i)
  \/ \E i \in 1..NCalls : ExecReturn(i)
  \/ \E i \in 1..NCalls : ExecTimeout(i)
  \/ \E i \in 1..NCalls : ExecShutdown(i)
  \/ ProcessResults
  \/ ClosureChatOk
  \/ ClosureChatFail

NextLoop ==
  \/ LoopStep
  \/ \E i \in 1..NCalls : HandlerFinishLate(i)
  \/ InjectOwnerMessage

----------------------------------------------------------------------------
(* git.lock and the git tools: ouroboros/agent.py *)

MaxGitWorkers == 2    \* workers that call git tools on one runtime root

GitWorkers == 1..MaxGitWorkers

GitTools == {"repo_write_commit", "repo_commit_push", "claude_code_edit"}

\* commit messages, as sequences of characters
CommitMessages == { << >>, << " " >>, << "f", "i", "x" >> }

\* the message handed to a tool: repo_write_commit is followed from its
\* first line and gets any message; the other two tools are followed from
\* their _acquire_git_lock on, which they reach with a text that is not blank
GitTexts(op) ==
  IF op = "repo_write_commit" THEN CommitMessages ELSE { << "f", "i", "x" >> }

RECURSIVE lstrip(_)
lstrip(s) == IF s # << >> /\ Head(s) = " " THEN lstrip(Tail(s)) ELSE s

RECURSIVE rstrip(_)
rstrip(s) ==
  IF s # << >> /\ s[Len(s)] = " " THEN rstrip(SubSeq(s, 1, Len(s) - 1)) ELSE s

\* str.strip
strip(s) == rstrip(lstrip(s))

\* how a call ends whose lock_path.unlink() finds no file: the exception
\* leaves the finally block in place of the value the tool was returning
FileNotFoundError == "FileNotFoundError"

\* what repo_write_commit returns on a blank commit message
MustBeNonEmpty == "must be non-empty"

\* repo_write_commit committing before it stages the file
GitSteps_CommitBeforeAdd(op) ==
  CASE op = "repo_write_commit" -> << "checkout", "write_text", "commit", "add", "push" >>
    [] op = "repo_commit_push"  -> << "checkout", "add", "status", "commit", "push" >>
    [] op = "claude_code_edit"  -> << "checkout", "claude" >>

\* what a git tool runs between _acquire_git_lock and _release_git_lock
GitSteps(op) ==
  CASE op = "repo_write_commit" -> << "checkout", "write_text", "add", "commit", "push" >>
    [] op = "repo_commit_push"  -> << "checkout", "add", "status", "commit", "push" >>
    [] op = "claude_code_edit"  -> << "checkout", "claude" >>

\* agent.py 981-985, 1029, 1151: a worker calls a git tool, which returns at
\* once on a blank commit message and goes for the lock otherwise
GitToolCall(w) ==
  /\ git_pc[w] = "idle"
  /\ UNCHANGED notGit
  /\ \E op \in GitTools : \E text \in GitTexts(op) :
        /\ git_op' = [git_op EXCEPT ![w] = op]
        /\ git_text' = [git_text EXCEPT ![w] = text]
        /\ git_log' = [git_log EXCEPT ![w] = << >>]
        /\ IF strip(text) = << >>
           THEN /\ git_ret' = [git_ret EXCEPT ![w] = MustBeNonEmpty]
                /\ UNCHANGED git_pc
           ELSE /\ git_ret' = [git_ret EXCEPT ![w] = "none"]
                /\ git_pc' = [git_pc EXCEPT ![w] = "acquire_check"]
  /\ UNCHANGED << git_lock, git_step >>

\* agent.py 972-973: while lock_path.exists(): sleep
GitLockCheck(w) ==
  /\ git_pc[w] = "acquire_check"
  /\ UNCHANGED notGit
  /\ git_pc' = [git_pc EXCEPT ![w] = IF git_lock THEN "acquire_check" ELSE "acquire_write"]
  /\ UNCHANGED << git_lock, git_op, git_step, git_ret, git_log, git_text >>

\* agent.py 974-975: lock_path.write_text creates or overwrites the file
GitLockWrite(w) ==
  /\ git_pc[w] = "acquire_write"
  /\ UNCHANGED notGit
  /\ git_lock' = TRUE
  /\ git_pc' = [git_pc EXCEPT ![w] = "run"]
  /\ git_step' = [git_step EXCEPT ![w] = 1]
  /\ UNCHANGED << git_op, git_ret, git_log, git_text >>

\* a step of the tool succeeds; after the last one the finally block releases
GitStepOk(w) ==
  /\ git_pc[w] = "run"
  /\ UNCHANGED notGit
  /\ git_log' = [git_log EXCEPT ![w] = Append(@, GitSteps(git_op[w])[git_step[w]])]
  /\ IF git_step[w] < Len(GitSteps(git_op[w]))
     THEN /\ git_step' = [git_step EXCEPT ![w] = @ + 1]
          /\ UNCHANGED << git_pc, git_ret >>
     ELSE /\ git_step' = [git_step EXCEPT ![w] = 0]
          /\ git_ret' = [git_ret EXCEPT ![w] = "OK"]
          /\ git_pc' = [git_pc EXCEPT ![w] = "release_check"]
  /\ UNCHANGED << git_lock, git_op, git_text >>

\* a failing step that returns its error without the finally block
GitStepFail_NoFinally(w) ==
  /\ git_pc[w] = "run"
  /\ UNCHANGED notGit
  /\ git_log' = [git_log EXCEPT ![w] = Append(@, GitSteps(git_op[w])[git_step[w]])]
  /\ git_step' = [git_step EXCEPT ![w] = 0]
  /\ git_ret' = [git_ret EXCEPT ![w] = GitSteps(git_op[w])[git_step[w]]]
  /\ git_pc' = [git_pc EXCEPT ![w] = "idle"]
  /\ UNCHANGED << git_lock, git_op, git_text >>

\* a step of the tool fails (the command exits non-zero, raises or times out,
\* or the tool finds nothing to do): the tool returns its error through the
\* finally block
GitStepFail(w) ==
  /\ git_pc[w] = "run"
  /\ UNCHANGED notGit
  /\ git_log' = [git_log EXCEPT ![w] = Append(@, GitSteps(git_op[w])[git_step[w]])]
  /\ git_step' = [git_step EXCEPT ![w] = 0]
  /\ git_ret' = [git_ret EXCEPT ![w] = GitSteps(git_op[w])[git_step[w]]]
  /\ git_pc' = [git_pc EXCEPT ![w] = "release_check"]
  /\ UNCHANGED << git_lock, git_op, git_text >>

\* agent.py 978: if lock_path.exists()
GitReleaseCheck(w) ==
  /\ git_pc[w] = "release_check"
  /\ UNCHANGED notGit
  /\ git_pc' = [git_pc EXCEPT ![w] = IF git_lock THEN "release_unlink" ELSE "idle"]
  /\ UNCHANGED << git_lock, git_op, git_step, git_ret, git_log, git_text >>

\* agent.py 979: lock_path.unlink(); on a file that is gone it raises and the
\* tool call ends with that exception
GitReleaseUnlink(w) ==
  /\ git_pc[w] = "release_unlink"
  /\ UNCHANGED notGit
  /\ git_lock' = FALSE
  /\ git_ret' = [git_ret EXCEPT ![w] = IF git_lock THEN @ ELSE FileNotFoundError]
  /\ git_pc' = [git_pc EXCEPT ![w] = "idle"]
  /\ UNCHANGED << git_op, git_step, git_log, git_text >>

NextGit ==
  \E w \in GitWorkers :
     \/ GitToolCall(w)
     \/ GitLockCheck(w)
     \/ GitLockWrite(w)
     \/ GitStepOk(w)
     \/ GitStepFail(w)
     \/ GitReleaseCheck(w)
     \/ GitReleaseUnlink(w)

----------------------------------------------------------------------------
(* Update polling and dedup: the main loop of run(), supervisor/main.py *)

RingCap == 4000       \* ids the dedup set keeps
DequeMaxLen == 4096   \* maxlen of recent_update_order

BurstLen == 100       \* updates of a full batch
MaxRedeliveries == 1  \* polls that return an update delivered before

\* ids the transport hands out: enough to overflow the dedup set
MaxUpdateId == RingCap + 2 * BurstLen

Senders == {1, 2}

\* what an update is: a text message, a supervisor command, or a message whose
\* processing raises before it reaches the dispatch
UpdateKinds == {"text", "command", "raises"}

Update(id, from, kind) == [update_id |-> id, from_id |-> from, kind |-> kind]

(* Sets and sequences of ids are kept as runs << lo, hi >> of consecutive ids *)

RunLen(r) == r[2] - r[1] + 1

\* len(recent_update_ids)
RECURSIVE SetLen(_)
SetLen(S) ==
  IF S = {} THEN 0
  ELSE LET r == CHOOSE x \in S : TRUE IN RunLen(r) + SetLen(S \ {r})

\* update_id in recent_update_ids
SetContains(S, id) == \E r \in S : r[1] <= id /\ id <= r[2]

\* recent_update_ids.add(update_id)
SetAdd(S, id) ==
  IF SetContains(S, id) THEN S
  ELSE LET left == {r \in S : r[2] = id - 1}
           right == {r \in S : r[1] = id + 1}
           lo == IF left = {} THEN id ELSE (CHOOSE r \in left : TRUE)[1]
           hi == IF right = {} THEN id ELSE (CHOOSE r \in right : TRUE)[2]
       IN (S \ (left \cup right)) \cup {<< lo, hi >>}

\* recent_update_ids.discard(old_id)
SetDiscard(S, id) ==
  LET hit == {r \in S : r[1] <= id /\ id <= r[2]}
  IN (S \ hit) \cup {<< r[1], id - 1 >> : r \in {x \in hit : x[1] < id}}
               \cup {<< id + 1, r[2] >> : r \in {x \in hit : x[2] > id}}

\* len(recent_update_order)
RECURSIVE DequeLen(_)
DequeLen(q) == IF q = << >> THEN 0 ELSE RunLen(q[1]) + DequeLen(Tail(q))

\* recent_update_order.popleft(): the deque that is left
DequePopLeft(q) ==
  IF q[1][1] = q[1][2] THEN Tail(q) ELSE [q EXCEPT ![1] = << @[1] + 1, @[2] >>]

\* recent_update_order.append(update_id) on a deque with maxlen
DequeAppend(q, id) ==
  LET room == IF DequeLen(q) >= DequeMaxLen THEN DequePopLeft(q) ELSE q
  IN IF room # << >> /\ room[Len(room)][2] + 1 = id
     THEN [room EXCEPT ![Len(room)] = << @[1], id >>]
     ELSE Append(room, << id, id >>)

(* The dispatch and eviction logs count how often an id was entered: level k
   of a log is the set of the ids entered at least k times *)

Occurrences(log, id) == Cardinality({k \in 1..Len(log) : SetContains(log[k], id)})

LogAdd(log, id) ==
  LET k == Occurrences(log, id) + 1
  IN IF k > Len(log) THEN Append(log, {<< id, id >>})
     ELSE [log EXCEPT ![k] = SetAdd(@, id)]

\* the owner rebound to the sender of every update
_set_owner_Latest(owner, from_id) == from_id

\* main.py 180-191: the owner after _set_owner_if_needed
_set_owner_if_needed(owner, from_id) == IF owner = 0 THEN from_id ELSE owner

\* the owner test on any sender
_is_owner_Anyone(owner, from_id) == owner # 0

\* main.py 194-197
_is_owner(owner, from_id) == owner # 0 /\ owner = from_id

\* main.py 282-319: what _process_telegram_update does with an update: the
\* owner it leaves bound, whether it raised, and whether it reached
\* _dispatch_owner_message (only an owner's message that is no command does)
_process_telegram_update(upd, owner) ==
  LET bound == _set_owner_if_needed(owner, upd.from_id)
  IN [owner_id |-> bound,
      raised |-> _is_owner(bound, upd.from_id) /\ upd.kind = "raises",
      dispatch |-> _is_owner(bound, upd.from_id) /\ upd.kind = "text"]

\* no dedup at all
IsDuplicate_Never(update_id, ids) == FALSE

\* main.py 543: the hard dedup
IsDuplicate(update_id, ids) == update_id # 0 /\ SetContains(ids, update_id)

\* main.py 555-557: the oldest ids leave while the set is over its cap
RECURSIVE EvictOld(_)
EvictOld(st) ==
  IF SetLen(st.ids) > RingCap /\ st.order # << >>
  THEN LET old_id == st.order[1][1]
           popped == [st EXCEPT !.order = DequePopLeft(@),
                                !.ids = SetDiscard(@, old_id),
                                !.evicted = LogAdd(@, old_id)]
       IN EvictOld(popped)
  ELSE st

\* main.py 539-566: the body of the loop over the updates of a batch
ProcessUpdate(st, upd) ==
  IF IsDuplicate(upd.update_id, st.ids) THEN st
  ELSE LET out == _process_telegram_update(upd, st.owner_id)
           st1 == [st EXCEPT
                     !.offset = IF upd.update_id >= @ THEN upd.update_id + 1 ELSE @,
                     !.owner_id = out.owner_id,
                     !.dispatched = IF out.dispatch
                                    THEN LogAdd(@, upd.update_id) ELSE @]
           recorded == [st1 EXCEPT !.ids = SetAdd(@, upd.update_id),
                                   !.order = DequeAppend(@, upd.update_id)]
       IN IF out.raised \/ upd.update_id = 0 THEN st1 ELSE EvictOld(recorded)

\* main.py 538: for upd in updates, over updates[lo..hi]; the range is split
\* in halves, each half finished before the next starts
RECURSIVE ProcessBatch(_, _, _, _)
ProcessBatch(st, updates, lo, hi) ==
  IF lo > hi THEN st
  ELSE IF lo = hi THEN LET upd == updates[lo] IN ProcessUpdate(st, upd)
  ELSE LET mid == (lo + hi) \div 2
           done == ProcessBatch(st, updates, lo, mid)
       IN IF done.offset >= 0 THEN ProcessBatch(done, updates, mid + 1, hi) ELSE done

\* main.py 522-571: one iteration of the main loop on the batch it polled
Polled(updates) ==
  LET st == [offset |-> offset, ids |-> recent_update_ids,
             order |-> recent_update_order, owner_id |-> owner_id,
             dispatched |-> dispatched, evicted |-> evicted]
      end == ProcessBatch(st, updates, 1, Len(updates))
  IN /\ offset' = end.offset
     /\ recent_update_ids' = end.ids
     /\ recent_update_order' = end.order
     /\ owner_id' = end.owner_id
     /\ dispatched' = end.dispatched
     /\ evicted' = end.evicted

\* the update the transport sent under an id
Sent(id, firsts) ==
  IF id \in 1..Len(firsts) THEN firsts[id] ELSE Update(id, 1, "text")

\* the first poll returns one update
PollSingle ==
  /\ next_update_id = 1
  /\ UNCHANGED notUpd
  /\ offset = 0
  /\ \E from \in Senders, kind \in UpdateKinds :
        /\ LET updates == << Update(next_update_id, from, kind) >> IN Polled(updates)
        /\ first_updates' = Append(first_updates, Update(next_update_id, from, kind))
  /\ next_update_id' = next_update_id + 1
  /\ UNCHANGED redelivered

\* the poll returns a full batch of new text messages of user 1
PollBurst ==
  /\ next_update_id + BurstLen - 1 <= MaxUpdateId
  /\ UNCHANGED notUpd
  /\ LET updates == [k \in 1..BurstLen |-> Update(next_update_id + k - 1, 1, "text")]
     IN Polled(updates)
  /\ next_update_id' = next_update_id + BurstLen
  /\ UNCHANGED << first_updates, redelivered >>

\* the poll returns an update it delivered before, once or twice in the batch
PollRedelivered ==
  /\ Len(redelivered) < MaxRedeliveries
  /\ UNCHANGED notUpd
  /\ next_update_id > 1
  /\ \E which \in {"first", "latest"}, copies \in {1, 2} :
        /\ LET upd == Sent(IF which = "first" THEN 1 ELSE next_update_id - 1,
                            first_updates)
               updates == [k \in 1..copies |-> upd]
           IN Polled(updates)
        /\ redelivered' = Append(redelivered, which)
  /\ UNCHANGED << first_updates, next_update_id >>

\* the first poll returns an update that carries no update_id
PollNoId ==
  /\ next_update_id = 1
  /\ UNCHANGED notUpd
  /\ offset = 0
  /\ \E from \in Senders, kind \in UpdateKinds :
        LET updates == << Update(0, from, kind) >> IN Polled(updates)
  /\ UNCHANGED << first_updates, next_update_id, redelivered >>

\* main.py 525-536: get_updates raises and the batch is empty
PollError ==
  /\ Polled(<< >>)
  /\ UNCHANGED notUpd
  /\ UNCHANGED << first_updates, next_update_id, redelivered >>

NextUpdates ==
  \/ PollSingle
  \/ PollBurst
  \/ PollRedelivered
  \/ PollNoId
  \/ PollError

----------------------------------------------------------------------------
(* Owner messages: _process_telegram_update and the per-message threads *)

MaxDelivered == 3     \* updates handed to _process_telegram_update

\* sender ids (0 = the update has no sender) and chat ids (0 = no chat)
FromIds == {0, 1, 2}
ChatIds == {0, 10, 20}

\* what a message carries: a text, a supervisor command, or neither text nor
\* caption nor image
ChatKinds == {"text", "command", "empty"}

ChatUpdate(from, chat, kind) == [from_id |-> from, chat_id |-> chat, kind |-> kind]

NoOutcome ==
  [upd |-> ChatUpdate(0, 0, "empty"), owner_before |-> 0, reply |-> "none",
   reply_chat |-> 0, command |-> FALSE, event |-> FALSE, dispatch |-> FALSE]

\* main.py 186-188: owner_chat_id after _set_owner_if_needed
_set_owner_chat_if_needed(owner_chat, chat_id) ==
  IF owner_chat = 0 THEN chat_id ELSE owner_chat

\* main.py 282-319: _process_telegram_update on update u with the state file f:
\* the state file it leaves and what it did
ProcessTelegramUpdate(u, f) ==
  IF u.from_id = 0 \/ u.chat_id = 0
  THEN [file |-> f, reached_owner_check |-> FALSE,
        out |-> [NoOutcome EXCEPT !.upd = u, !.owner_before = f.owner_id]]
  ELSE LET bound == [owner_id |-> _set_owner_if_needed(f.owner_id, u.from_id),
                     owner_chat_id |->
                        _set_owner_chat_if_needed(f.owner_chat_id, u.chat_id)]
           authorized == _is_owner(bound.owner_id, u.from_id)
       IN [file |-> bound, reached_owner_check |-> TRUE,
           out |-> [upd |-> u,
                    owner_before |-> f.owner_id,
                    reply |-> IF ~authorized THEN "Not authorized"
                              ELSE IF u.kind = "command" THEN "command reply"
                              ELSE "none",
                    reply_chat |-> IF ~authorized \/ u.kind = "command"
                                   THEN u.chat_id ELSE 0,
                    command |-> authorized /\ u.kind = "command",
                    event |-> authorized /\ u.kind = "text",
                    dispatch |-> authorized /\ u.kind = "text"]]

\* main.py 538-550 and 262-279: the main loop hands the next update to
\* _process_telegram_update; a dispatched message gets its event and its
\* started thread
ChatDeliver ==
  /\ delivered < MaxDelivered
  /\ UNCHANGED notChat
  /\ \E from \in FromIds, chat \in ChatIds, kind \in ChatKinds :
        LET done == ProcessTelegramUpdate(ChatUpdate(from, chat, kind), state_file)
        IN /\ state_file' = done.file
           /\ last_update' = done.out
           /\ first_seen' = IF first_seen = 0 /\ done.reached_owner_check
                            THEN from ELSE first_seen
           /\ chat_threads' = IF done.out.dispatch
                              THEN Append(chat_threads, "started") ELSE chat_threads
  /\ delivered' = delivered + 1
  /\ UNCHANGED << begun, ended >>

\* main.py 273-279: the thread of message t runs its target, handle_chat_direct
ChatThreadBegin(t) ==
  /\ chat_threads[t] = "started"
  /\ UNCHANGED notChat
  /\ chat_threads' = [chat_threads EXCEPT ![t] = "handling"]
  /\ begun' = Append(begun, t)
  /\ UNCHANGED << state_file, delivered, last_update, first_seen, ended >>

\* handle_chat_direct returns and the thread of message t ends
ChatThreadEnd(t) ==
  /\ chat_threads[t] = "handling"
  /\ UNCHANGED notChat
  /\ chat_threads' = [chat_threads EXCEPT ![t] = "finished"]
  /\ ended' = Append(ended, t)
  /\ UNCHANGED << state_file, delivered, last_update, first_seen, begun >>

NextChat ==
  \/ ChatDeliver
  \/ \E t \in DOMAIN chat_threads : ChatThreadBegin(t)
  \/ \E t \in DOMAIN chat_threads : ChatThreadEnd(t)

----------------------------------------------------------------------------
(* The lifetime of one supervisor: main loop, shutdown, crash and restart *)

MaxTasks == 2         \* tasks created in one history
MaxHandled == 2       \* updates the main loop processes in one history
MaxRestarts == 1      \* restarts after a crash

Tasks == 1..Len(task_type)

Alive == run_pc \in {"loop_test", "poll", "drain", "assign", "restored",
                     "kill_workers", "save_state", "persist_queue", "log_exit",
                     "release_lock"}

InLoop == run_pc \in {"loop_test", "poll", "drain", "assign"}

\* the queue snapshot of the pending and the running ids
QueueSnapshot(pending, running) == [pending |-> pending, running |-> running]

\* main.py 510-512: _stop_handler runs on SIGTERM or SIGINT
SupSignal ==
  /\ InLoop
  /\ UNCHANGED notSup
  /\ ~stop_flag
  /\ stop_flag' = TRUE
  /\ UNCHANGED << run_pc, lock_present, run_offset, saved_offset, handled_updates,
                  task_type, PENDING, RUNNING, terminal, snapshot, chat_handling,
                  evolution_enabled, restarts, failed_step, last_reply >>

\* main.py 522 and 597: while not stop_flag["stop"]
SupLoopTest ==
  /\ run_pc = "loop_test"
  /\ UNCHANGED notSup
  /\ run_pc' = IF stop_flag THEN "kill_workers" ELSE "poll"
  /\ UNCHANGED << stop_flag, lock_present, run_offset, saved_offset,
                  handled_updates, task_type, PENDING, RUNNING, terminal, snapshot,
                  chat_handling, evolution_enabled, restarts, failed_step, last_reply >>

\* main.py 525-536: the poll returns nothing or raises
SupPollEmpty ==
  /\ run_pc = "poll"
  /\ UNCHANGED notSup
  /\ run_pc' = "drain"
  /\ UNCHANGED << stop_flag, lock_present, run_offset, saved_offset,
                  handled_updates, task_type, PENDING, RUNNING, terminal, snapshot,
                  chat_handling, evolution_enabled, restarts, failed_step, last_reply >>

\* main.py 538-571 and 262-279: an owner message is dispatched: a task id is
\* made, the event put and the chat thread started; the queue is not touched;
\* the offset is advanced and saved
SupPollOwnerMessage ==
  /\ run_pc = "poll"
  /\ UNCHANGED notSup
  /\ handled_updates < MaxHandled
  /\ Len(task_type) < MaxTasks
  /\ task_type' = Append(task_type, "chat")
  /\ chat_handling' = chat_handling \cup {Len(task_type) + 1}
  /\ handled_updates' = handled_updates + 1
  /\ run_offset' = run_offset + 1
  /\ saved_offset' = run_offset + 1
  /\ run_pc' = "drain"
  /\ UNCHANGED << stop_flag, lock_present, PENDING, RUNNING, terminal, snapshot,
                  evolution_enabled, restarts, failed_step, last_reply >>

\* an id no task was created with
UnknownId == 0

\* queue.cancel_task_by_id (spec 4.7, cancel): a pending task is removed from
\* the queue, a running one is flagged; ok tells whether the id was found
cancel_task_by_id(id, pending, running) ==
  [ok |-> id \in pending \cup running,
   pending |-> pending \ {id}]

\* main.py 220: f"{'OK' if ok else 'Not found'}: {task_id}", up to the colon
CancelReply_AlwaysOK(ok) == "OK"

CancelReply(ok) == IF ok THEN "OK" ELSE "Not found"

\* main.py 214-221: /cancel <task_id>.  queue.cancel_task_by_id takes a
\* pending task out of the queue as cancelled and flags a running one; the
\* reply tells whether the id was found; the command is not dispatched
SupPollCancel(t) ==
  /\ run_pc = "poll"
  /\ UNCHANGED notSup
  /\ handled_updates < MaxHandled
  /\ PENDING' = cancel_task_by_id(t, PENDING, RUNNING).pending
  /\ IF t \in PENDING
     THEN /\ terminal' = terminal \cup {t}
          /\ snapshot' = QueueSnapshot(PENDING \ {t}, RUNNING)
     ELSE UNCHANGED << terminal, snapshot >>
  /\ last_reply' = CancelReply(cancel_task_by_id(t, PENDING, RUNNING).ok)
  /\ handled_updates' = handled_updates + 1
  /\ run_offset' = run_offset + 1
  /\ saved_offset' = run_offset + 1
  /\ run_pc' = "drain"
  /\ UNCHANGED << stop_flag, lock_present, task_type, RUNNING, chat_handling,
                  evolution_enabled, restarts, failed_step >>

\* main.py 233: PENDING[:] = [t for t in PENDING if type != "evolution"]
KeptOnEvolveStop(pending, types) == {t \in pending : types[t] # "evolution"}

\* main.py 223-239: /evolve start and /evolve stop
SupPollEvolve(arg) ==
  /\ run_pc = "poll"
  /\ UNCHANGED notSup
  /\ handled_updates < MaxHandled
  /\ IF arg = "start"
     THEN /\ evolution_enabled' = TRUE
          /\ last_reply' = "Evolution ON"
          /\ UNCHANGED << PENDING, snapshot >>
     ELSE /\ evolution_enabled' = FALSE
          /\ last_reply' = "Evolution OFF"
          /\ PENDING' = KeptOnEvolveStop(PENDING, task_type)
          /\ snapshot' = QueueSnapshot(KeptOnEvolveStop(PENDING, task_type), RUNNING)
  /\ handled_updates' = handled_updates + 1
  /\ run_offset' = run_offset + 1
  /\ saved_offset' = run_offset + 1
  /\ run_pc' = "drain"
  /\ UNCHANGED << stop_flag, lock_present, task_type, RUNNING, terminal,
                  chat_handling, restarts, failed_step >>

\* main.py 322-332 and 573: _drain_worker_events; a task_done event makes a
\* running task terminal and the snapshot is written
SupDrain ==
  /\ run_pc = "drain"
  /\ UNCHANGED notSup
  /\ \E done \in SUBSET RUNNING :
        /\ RUNNING' = RUNNING \ done
        /\ terminal' = terminal \cup done
        /\ snapshot' = IF done = {} THEN snapshot
                       ELSE QueueSnapshot(PENDING, RUNNING \ done)
  /\ run_pc' = "assign"
  /\ UNCHANGED << stop_flag, lock_present, run_offset, saved_offset,
                  handled_updates, task_type, PENDING, chat_handling,
                  evolution_enabled, restarts, failed_step, last_reply >>

\* main.py 574-577: assign_tasks hands pending tasks to idle workers and
\* enqueue_evolution_task_if_needed adds an evolution task when the mode is on
\* and none is queued or running; each mutation writes the snapshot
SupAssign ==
  /\ run_pc = "assign"
  /\ UNCHANGED notSup
  /\ \E assigned \in SUBSET PENDING :
        LET due == /\ evolution_enabled
                   /\ Len(task_type) < MaxTasks
                   /\ ~\E t \in PENDING \cup RUNNING : task_type[t] = "evolution"
            pending == (PENDING \ assigned)
                          \cup (IF due THEN {Len(task_type) + 1} ELSE {})
        IN /\ PENDING' = pending
           /\ RUNNING' = RUNNING \cup assigned
           /\ task_type' = IF due THEN Append(task_type, "evolution") ELSE task_type
           /\ snapshot' = IF assigned = {} /\ ~due THEN snapshot
                          ELSE QueueSnapshot(pending, RUNNING \cup assigned)
  /\ run_pc' = "loop_test"
  /\ UNCHANGED << stop_flag, lock_present, run_offset, saved_offset,
                  handled_updates, terminal, chat_handling, evolution_enabled,
                  restarts, failed_step, last_reply >>

\* main.py 573-577: a call of the iteration raises; nothing in run() catches it
SupIterationRaises ==
  /\ run_pc \in {"drain", "assign"}
  /\ UNCHANGED notSup
  /\ failed_step' = run_pc
  /\ run_pc' = "failed"
  /\ UNCHANGED << stop_flag, lock_present, run_offset, saved_offset,
                  handled_updates, task_type, PENDING, RUNNING, terminal, snapshot,
                  chat_handling, evolution_enabled, restarts, last_reply >>

\* handle_chat_direct returns in the thread of task t; its task is done
SupChatThreadDone(t) ==
  /\ Alive
  /\ UNCHANGED notSup
  /\ t \in chat_handling
  /\ chat_handling' = chat_handling \ {t}
  /\ terminal' = terminal \cup {t}
  /\ UNCHANGED << run_pc, stop_flag, lock_present, run_offset, saved_offset,
                  handled_updates, task_type, PENDING, RUNNING, snapshot,
                  evolution_enabled, restarts, failed_step, last_reply >>

\* main.py 597-600: kill_workers, with its exception caught and logged
SupKillWorkers ==
  /\ run_pc = "kill_workers"
  /\ UNCHANGED notSup
  /\ run_pc' = "save_state"
  /\ UNCHANGED << stop_flag, lock_present, run_offset, saved_offset,
                  handled_updates, task_type, PENDING, RUNNING, terminal, snapshot,
                  chat_handling, evolution_enabled, restarts, failed_step, last_reply >>

\* main.py 602-604: the state is saved with the current offset
SupSaveState ==
  /\ run_pc = "save_state"
  /\ UNCHANGED notSup
  /\ saved_offset' = run_offset
  /\ run_pc' = "persist_queue"
  /\ UNCHANGED << stop_flag, lock_present, run_offset, handled_updates, task_type,
                  PENDING, RUNNING, terminal, snapshot, chat_handling,
                  evolution_enabled, restarts, failed_step, last_reply >>

\* main.py 605: queue.persist_queue_snapshot(reason="main_exit")
SupPersistQueue ==
  /\ run_pc = "persist_queue"
  /\ UNCHANGED notSup
  /\ snapshot' = QueueSnapshot(PENDING, RUNNING)
  /\ run_pc' = "log_exit"
  /\ UNCHANGED << stop_flag, lock_present, run_offset, saved_offset,
                  handled_updates, task_type, PENDING, RUNNING, terminal,
                  chat_handling, evolution_enabled, restarts, failed_step, last_reply >>

\* main.py 607-613: the main_exit record is appended
SupLogExit ==
  /\ run_pc = "log_exit"
  /\ UNCHANGED notSup
  /\ run_pc' = "release_lock"
  /\ UNCHANGED << stop_flag, lock_present, run_offset, saved_offset,
                  handled_updates, task_type, PENDING, RUNNING, terminal, snapshot,
                  chat_handling, evolution_enabled, restarts, failed_step, last_reply >>

\* main.py 614 and 387-399: _release_singleton_lock, then run() returns and the
\* daemon threads end with the process
SupReleaseLock ==
  /\ run_pc = "release_lock"
  /\ UNCHANGED notSup
  /\ lock_present' = FALSE
  /\ chat_handling' = {}
  /\ run_pc' = "exited"
  /\ UNCHANGED << stop_flag, run_offset, saved_offset, handled_updates, task_type,
                  PENDING, RUNNING, terminal, snapshot, evolution_enabled,
                  restarts, failed_step, last_reply >>

\* main.py 602-613: load_state, save_state, persist_queue_snapshot or
\* append_jsonl raises (an I/O failure is surfaced to the caller); run() has no
\* handler and no finally around them
SupShutdownRaises ==
  /\ run_pc \in {"save_state", "persist_queue", "log_exit"}
  /\ UNCHANGED notSup
  /\ failed_step' = run_pc
  /\ chat_handling' = {}
  /\ run_pc' = "failed"
  /\ UNCHANGED << stop_flag, lock_present, run_offset, saved_offset,
                  handled_updates, task_type, PENDING, RUNNING, terminal, snapshot,
                  evolution_enabled, restarts, last_reply >>

\* the supervisor process is killed: its memory and its threads are gone, the
\* files stay
SupCrash ==
  /\ Alive
  /\ UNCHANGED notSup
  /\ run_pc # "restored"
  /\ restarts < MaxRestarts
  /\ run_pc' = "crashed"
  /\ PENDING' = {}
  /\ RUNNING' = {}
  /\ chat_handling' = {}
  /\ stop_flag' = FALSE
  /\ UNCHANGED << lock_present, run_offset, saved_offset, handled_updates,
                  task_type, terminal, snapshot, evolution_enabled, restarts,
                  failed_step, last_reply >>

\* main.py 402-517: a new supervisor starts on the runtime root: it reclaims
\* the stale lock, restore_pending_from_snapshot puts the snapshot's pending
\* and running tasks without a task_done event back into the queue, and the
\* offset is read from the state file
SupRestart ==
  /\ run_pc = "crashed"
  /\ UNCHANGED notSup
  /\ restarts' = restarts + 1
  /\ lock_present' = TRUE
  /\ PENDING' = (snapshot.pending \cup snapshot.running) \ terminal
  /\ RUNNING' = {}
  /\ snapshot' = QueueSnapshot((snapshot.pending \cup snapshot.running) \ terminal, {})
  /\ run_offset' = saved_offset
  /\ run_pc' = "restored"
  /\ UNCHANGED << stop_flag, saved_offset, handled_updates, task_type, terminal,
                  chat_handling, evolution_enabled, failed_step, last_reply >>

\* main.py 522: the restarted supervisor enters its main loop
SupEnterLoop ==
  /\ run_pc = "restored"
  /\ UNCHANGED notSup
  /\ run_pc' = "loop_test"
  /\ UNCHANGED << stop_flag, lock_present, run_offset, saved_offset,
                  handled_updates, task_type, PENDING, RUNNING, terminal, snapshot,
                  chat_handling, evolution_enabled, restarts, failed_step, last_reply >>

NextSup ==
  \/ SupSignal
  \/ SupLoopTest
  \/ SupPollEmpty
  \/ SupPollOwnerMessage
  \/ \E t \in Tasks \cup {UnknownId} : SupPollCancel(t)
  \/ \E arg \in {"start", "stop"} : SupPollEvolve(arg)
  \/ SupDrain
  \/ SupAssign
  \/ SupIterationRaises
  \/ \E t \in Tasks : SupChatThreadDone(t)
  \/ SupKillWorkers
  \/ SupSaveState
  \/ SupPersistQueue
  \/ SupLogExit
  \/ SupReleaseLock
  \/ SupShutdownRaises
  \/ SupCrash
  \/ SupRestart
  \/ SupEnterLoop

----------------------------------------------------------------------------
(* The reasoning effort over the rounds of run_llm_loop *)

MaxEffortRounds == 10 \* rounds of one long run_llm_loop invocation

NoCall == [round |-> 0, kind |-> "none", model |-> "none", effort |-> "none",
           prev |-> "none"]

\* what the effort steps leave alone of the loop's variables
effortFrame == << messages, incoming, injected_total, attempt, backoff, msg,
                  accumulated, round_events, budget, tool_calls, can_parallel,
                  exec, handler, res, order, closure_calls, ret >>

\* the call llm.chat(..., model=model, reasoning_effort=effort) of a round
ChatCall(round, kind, model, effort) ==
  [round |-> round, kind |-> kind, model |-> model, effort |-> effort,
   prev |-> IF last_call.kind = "none" THEN effort ELSE last_call.effort]

\* loop.py 202-296: a round up to its LLM call (every attempt of the round
\* passes the same effort); the response carries tool calls, or the loop
\* returns
EffortRound ==
  /\ pc = "round_start"
  /\ UNCHANGED notEffort
  /\ round_idx < MaxEffortRounds
  /\ round_idx' = round_idx + 1
  /\ active_effort' = EscalateEffort(active_effort, round_idx + 1)
  /\ last_call' = ChatCall(round_idx + 1, "round", active_model,
                           EscalateEffort(active_effort, round_idx + 1))
  /\ \E next \in {"tools", "done"} : pc' = next
  /\ UNCHANGED << active_model, code_round >>
  /\ UNCHANGED effortFrame

\* loop.py 304-395: the tool round: the profile switch after a code tool, the
\* raises after 2 and 4 errors, and the budget guard
EffortToolRound ==
  /\ pc = "tools"
  /\ UNCHANGED notEffort
  /\ \E saw_code_tool \in BOOLEAN, error_count \in {0, 2, 4} :
        LET prof == IF saw_code_tool
                    THEN _switch_to_code_profile(active_model, active_effort)
                    ELSE << active_model, active_effort >>
            e2 == IF error_count >= 2 THEN _maybe_raise_effort(prof[2], "high")
                  ELSE prof[2]
            e4 == IF error_count >= 4 THEN _maybe_raise_effort(e2, "xhigh") ELSE e2
        IN /\ active_model' = prof[1]
           /\ active_effort' = e4
           /\ code_round' = IF saw_code_tool /\ code_round = 0
                            THEN round_idx ELSE code_round
  /\ \E next \in {"round_start", "closure_call"} : pc' = next
  /\ UNCHANGED << round_idx, last_call >>
  /\ UNCHANGED effortFrame

\* loop.py 384-392: the closing call of the budget guard
EffortClosureCall ==
  /\ pc = "closure_call"
  /\ UNCHANGED notEffort
  /\ last_call' = ChatCall(round_idx, "closure", active_model, active_effort)
  /\ pc' = "done"
  /\ UNCHANGED << round_idx, active_model, active_effort, code_round >>
  /\ UNCHANGED effortFrame

NextEffort ==
  \/ EffortRound
  \/ EffortToolRound
  \/ EffortClosureCall

----------------------------------------------------------------------------
(* Provider resolution of the LLM client (ouroboros/llm.py).  Model ids and
   the preference selector are sequences of characters, so that strip, lower,
   startswith and split act on what was typed *)

\* llm.py 68-74: the providers of _env_keys
Providers == {"openrouter", "openai", "openai-codex", "zai", "opencode"}

\* llm.py 68-74: _env_keys
_env_keys ==
  [p \in Providers |->
     CASE p = "openrouter" -> "OPENROUTER_API_KEY"
       [] p = "openai" -> "OPENAI_API_KEY"
       [] p = "openai-codex" -> "OPENAI_CODEX_KEY"
       [] p = "zai" -> "ZAI_API_KEY"
       [] p = "opencode" -> "OPENCODE_API_KEY"]

\* the provider names as they are typed
ProviderChars ==
  [p \in Providers |->
     CASE p = "openrouter" -> << "o", "p", "e", "n", "r", "o", "u", "t", "e", "r" >>
       [] p = "openai" -> << "o", "p", "e", "n", "a", "i" >>
       [] p = "openai-codex" -> << "o", "p", "e", "n", "a", "i", "-", "c", "o", "d", "e", "x" >>
       [] p = "zai" -> << "z", "a", "i" >>
       [] p = "opencode" -> << "o", "p", "e", "n", "c", "o", "d", "e" >>]

UpperCase ==
  << "A", "B", "C", "D", "E", "F", "G", "H", "I", "J", "K", "L", "M",
     "N", "O", "P", "Q", "R", "S", "T", "U", "V", "W", "X", "Y", "Z" >>
LowerCase ==
  << "a", "b", "c", "d", "e", "f", "g", "h", "i", "j", "k", "l", "m",
     "n", "o", "p", "q", "r", "s", "t", "u", "v", "w", "x", "y", "z" >>

\* str.lower on one character
LowerChar(c) ==
  IF \E i \in 1..26 : UpperCase[i] = c
  THEN LowerCase[CHOOSE i \in 1..26 : UpperCase[i] = c]
  ELSE c

\* str.lower
lower(s) == [i \in 1..Len(s) |-> LowerChar(s[i])]

\* str.startswith
startswith(s, p) == Len(p) <= Len(s) /\ SubSeq(s, 1, Len(p)) = p

\* "/" in model
HasSlash(s) == \E i \in 1..Len(s) : s[i] = "/"

\* llm.py 59-61: model.split("/", 1)[1] if "/" in model else model
_strip_provider_prefix(model) ==
  IF HasSlash(model)
  THEN SubSeq(model, (CHOOSE i \in 1..Len(model) :
                         /\ model[i] = "/"
                         /\ \A j \in 1..(i - 1) : model[j] # "/") + 1, Len(model))
  ELSE model

\* llm.py 76-78: get_key; keys is the set of providers whose environment
\* variable holds a non-blank value, the key is named by its variable
get_key(provider, keys) == IF provider \in keys THEN _env_keys[provider] ELSE ""

\* llm.py 21-25 and 80-89: get_base_url with no base URL overridden
get_base_url(provider) ==
  CASE provider = "openrouter" -> "https://openrouter.ai/api/v1"
    [] provider = "openai" -> "https://api.openai.com/v1"
    [] provider = "openai-codex" -> "https://api.openai.com/v1"
    [] provider = "zai" -> "https://api.z.ai/api/paas/v4"
    [] provider = "opencode" -> "https://api.opencode.ai/v1"

\* llm.py 23
OPENAI_CODEX_BASE_URL == "https://api.openai.com/v1"

\* what a resolution step gives: a tuple, None, or a raised ValueError
Resolved(provider, effective_model, key, base_url) ==
  [kind |-> "ok", provider |-> provider, model |-> effective_model,
   key |-> key, base_url |-> base_url]
None == [kind |-> "None", provider |-> "", model |-> << >>, key |-> "", base_url |-> ""]
ValueError == [kind |-> "ValueError", provider |-> "", model |-> << >>, key |-> "",
               base_url |-> ""]
NotCalled == [kind |-> "NotCalled", provider |-> "", model |-> << >>, key |-> "",
              base_url |-> ""]

\* llm.py 96-102: prefix_map, in the order of the dict
prefix_map ==
  << [prefixes |-> { << "a", "n", "t", "h", "r", "o", "p", "i", "c", "/" >>,
                      << "o", "p", "e", "n", "a", "i", "/" >>,
                      << "g", "o", "o", "g", "l", "e", "/" >>,
                      << "m", "e", "t", "a", "-", "l", "l", "a", "m", "a", "/" >>,
                      << "x", "-", "a", "i", "/" >>,
                      << "q", "w", "e", "n", "/" >>,
                      << "m", "i", "s", "t", "r", "a", "l", "a", "i", "/" >>,
                      << "d", "e", "e", "p", "s", "e", "e", "k", "/" >> },
      provider |-> "openrouter"],
     [prefixes |-> { << "z", "a", "i", "/" >>,
                      << "z", "-", "a", "i", "/" >>,
                      << "g", "l", "m", "-" >> },
      provider |-> "zai"],
     [prefixes |-> { << "o", "p", "e", "n", "c", "o", "d", "e", "/" >>,
                      << "o", "p", "e", "n", "-", "c", "o", "d", "e", "/" >> },
      provider |-> "opencode"],
     [prefixes |-> { << "o", "p", "e", "n", "a", "i", "-", "c", "o", "d", "e", "x", "/" >>,
                      << "c", "o", "d", "e", "x", "/" >> },
      provider |-> "openai-codex"],
     [prefixes |-> { << "o", "p", "e", "n", "a", "i", "/" >>,
                      << "g", "p", "t", "-" >>,
                      << "o", "1" >>,
                      << "o", "3" >>,
                      << "o", "4" >> },
      provider |-> "openai"] >>

\* llm.py 105: any(ml.startswith(p) for p in prefixes)
PrefixMatches(i, model) == \E p \in prefix_map[i].prefixes : startswith(lower(model), p)

\* llm.py 104-114: the loop over prefix_map from entry i on
RECURSIVE PrefixScan(_, _, _)
PrefixScan(i, model, keys) ==
  IF i > Len(prefix_map) THEN None
  ELSE LET own == get_key(prefix_map[i].provider, keys)
           codex_to_openai == own = "" /\ prefix_map[i].provider = "openai-codex"
           key == IF codex_to_openai THEN get_key("openai", keys) ELSE own
           provider == IF codex_to_openai THEN "openai" ELSE prefix_map[i].provider
       IN IF PrefixMatches(i, model) /\ key # ""
          THEN Resolved(provider, _strip_provider_prefix(model), key,
                        get_base_url(provider))
          ELSE PrefixScan(i + 1, model, keys)

\* llm.py 91-116
resolve_by_model_prefix(model, keys) == PrefixScan(1, model, keys)

\* llm.py 120: the selector after strip().lower()
Preference(selector) == lower(strip(selector))

\* llm.py 125: pref in self._env_keys
NamesProvider(pref) == \E p \in Providers : ProviderChars[p] = pref
ProviderNamed(pref) == CHOOSE p \in Providers : ProviderChars[p] = pref

\* llm.py 118-139
resolve_by_preference(model, selector, keys) ==
  LET pref == Preference(selector)
  IN IF pref = << >> \/ pref = << "a", "u", "t", "o" >> THEN None
     ELSE IF NamesProvider(pref)
     THEN LET p == ProviderNamed(pref)
          IN IF get_key(p, keys) = "" THEN ValueError
             ELSE Resolved(p,
                           IF p \in {"openai", "openai-codex", "zai", "opencode"}
                                 /\ HasSlash(model)
                           THEN _strip_provider_prefix(model) ELSE model,
                           get_key(p, keys), get_base_url(p))
     ELSE None

\* llm.py 143
provider_order == << "openrouter", "openai", "zai", "opencode" >>

\* llm.py 146-153: the loop over provider_order from entry i on
RECURSIVE FallbackScan(_, _, _)
FallbackScan(i, model, keys) ==
  IF i > Len(provider_order) THEN ValueError
  ELSE IF get_key(provider_order[i], keys) # ""
  THEN Resolved(provider_order[i],
                IF provider_order[i] \in {"openai", "zai", "opencode"} /\ HasSlash(model)
                THEN _strip_provider_prefix(model) ELSE model,
                get_key(provider_order[i], keys), get_base_url(provider_order[i]))
  ELSE FallbackScan(i + 1, model, keys)

\* llm.py 141-155
resolve_fallback(model, keys) == FallbackScan(1, model, keys)

\* llm.py 157-182
resolve(model, selector, keys) ==
  LET m == strip(model)
      by_preference == resolve_by_preference(m, selector, keys)
      by_prefix == resolve_by_model_prefix(m, keys)
      codex_key == IF get_key("openai-codex", keys) # ""
                   THEN get_key("openai-codex", keys) ELSE get_key("openai", keys)
  IN IF m = << >> THEN ValueError
     ELSE IF by_preference.kind = "ValueError" THEN ValueError
     ELSE IF by_preference.kind = "ok" THEN by_preference
     ELSE IF by_prefix.kind = "ok" THEN by_prefix
     ELSE IF lower(m) = << "g", "p", "t", "-", "5", ".", "3", "-", "c", "o", "d", "e", "x" >>
     THEN IF codex_key = "" THEN ValueError
          ELSE Resolved("openai", m, codex_key, OPENAI_CODEX_BASE_URL)
     ELSE resolve_fallback(m, keys)

\* the model ids of the requests
ModelIds ==
  { << "a", "n", "t", "h", "r", "o", "p", "i", "c", "/", "c" >>,
    << "o", "p", "e", "n", "a", "i", "/", "g" >>,
    << "g", "l", "m", "-", "4" >>,
    << "Z", "A", "I", "/", "g" >>,
    << "o", "p", "e", "n", "c", "o", "d", "e", "/", "x" >>,
    << "c", "o", "d", "e", "x", "/", "x" >>,
    << "g", "p", "t", "-", "4" >>,
    << "o", "3", "-", "m" >>,
    << "g", "p", "t", "-", "5", ".", "3", "-", "c", "o", "d", "e", "x" >>,
    << "u", "n", "k", "n", "o", "w", "n", "/", "m" >>,
    << "i", "n", "v", "a", "l", "i", "d" >>,
    << " ", "g", "l", "m", "-", "4", " " >>,
    << " " >>,
    << >> }

\* the values of OUROBOROS_LLM_PROVIDER
Selectors ==
  { << >>,
    << " " >>,
    << "a", "u", "t", "o" >>,
    << "o", "p", "e", "n", "r", "o", "u", "t", "e", "r" >>,
    << "o", "p", "e", "n", "a", "i" >>,
    << "o", "p", "e", "n", "a", "i", "-", "c", "o", "d", "e", "x" >>,
    << " ", "Z", "A", "I", " " >>,
    << "o", "p", "e", "n", "c", "o", "d", "e" >>,
    << "o", "t", "h", "e", "r" >> }

\* the sets of providers with a key in the environment
KeySets == SUBSET Providers

\* llm.py 157: LLMClient resolves the provider of the request
ResolveCall ==
  /\ llm_result = NotCalled
  /\ UNCHANGED notResolve
  /\ llm_result' = resolve(llm_model, llm_selector, llm_keys)
  /\ UNCHANGED << llm_model, llm_selector, llm_keys >>

\* the next request of the same process names the model m
NextRequest(m) ==
  /\ llm_result # NotCalled
  /\ UNCHANGED notResolve
  /\ m # llm_model
  /\ llm_model' = m
  /\ llm_result' = NotCalled
  /\ UNCHANGED << llm_selector, llm_keys >>

NextResolve ==
  \/ ResolveCall
  \/ \E m \in ModelIds : NextRequest(m)

----------------------------------------------------------------------------
(* The PKCE authorization-code flow of OAuthClient (ouroboros/auth/oauth.py).
   An Optional[str] is the empty set for None and {s} for the string s *)

MaxOAuthCalls == 3    \* method calls on one OAuthClient in one history

\* the state arguments get_authorization_url is called with
StateArgs == { {}, {"s1"}, {""} }

\* oauth.py 81-87: secrets.token_urlsafe gives a value not seen before
FreshToken(kind, n) ==
  IF kind = "verifier" THEN << "v1", "v2", "v3", "v4", "v5", "v6" >>[n]
  ELSE << "r1", "r2", "r3", "r4", "r5", "r6" >>[n]

\* oauth.py 90-100: the challenge is a digest of the verifier
generate_code_challenge(verifier) == [sha256 |-> verifier]

\* the query strings of the redirect URLs, as name and value pairs in order
Param(name, value) == [name |-> name, value |-> value]
RedirectQueries ==
  { << >>,
    << Param("code", "c") >>,
    << Param("state", "s1") >>,
    << Param("code", "c"), Param("state", "s1") >>,
    << Param("code", "c"), Param("state", "") >>,
    << Param("code", ""), Param("state", "s1") >>,
    << Param("code", "c"), Param("state", "s2"), Param("state", "s1") >>,
    << Param("error", "access_denied"), Param("state", "s1") >>,
    << Param("code", "c"), Param("state", FreshToken("state", 1)) >>,
    << Param("code", "c"), Param("state", FreshToken("state", 2)) >> }

\* oauth.py 182-186: parse_qs(parsed.query).get(name, [None])[0]; parse_qs
\* leaves out the parameters with a blank value
QueryParam(query, name) ==
  LET at == {i \in 1..Len(query) : query[i].name = name /\ query[i].value # ""}
  IN IF at = {} THEN {}
     ELSE {query[CHOOSE i \in at : \A j \in at : i <= j].value}

\* oauth.py 177: not self._verifier
NoVerifier(verifier) == verifier = {}

\* oauth.py 187: not code
NoCode(code) == code = {} \/ code = {""}

\* oauth.py 190: state != self._state
StateMismatch(state, stored) == state # stored

\* the answers of the token endpoint
TokenResponses == {"200", "200_no_access_token", "400"}

NoExchange == [raised |-> "none", sent |-> FALSE, tokens |-> FALSE, query |-> << >>]

\* oauth.py 121-131
GeneratePkcePair ==
  /\ oa_calls < MaxOAuthCalls
  /\ UNCHANGED notOAuth
  /\ oa_calls' = oa_calls + 1
  /\ oa_fresh' = oa_fresh + 1
  /\ oa_verifier' = {FreshToken("verifier", oa_fresh + 1)}
  /\ oa_challenge' = {generate_code_challenge(FreshToken("verifier", oa_fresh + 1))}
  /\ UNCHANGED << oa_state, oa_issued, oa_requests, oa_last >>

\* oauth.py 133-160
GetAuthorizationUrl(state_arg) ==
  /\ oa_calls < MaxOAuthCalls
  /\ UNCHANGED notOAuth
  /\ oa_calls' = oa_calls + 1
  /\ LET generate == oa_verifier \in {{}, {""}} \/ oa_challenge = {}
         state == IF state_arg = {} THEN FreshToken("state", oa_fresh + 1)
                  ELSE CHOOSE s \in state_arg : TRUE
     IN /\ oa_verifier' = IF generate THEN {FreshToken("verifier", oa_fresh + 1)}
                          ELSE oa_verifier
        /\ oa_challenge' =
              IF generate
              THEN {generate_code_challenge(FreshToken("verifier", oa_fresh + 1))}
              ELSE oa_challenge
        /\ oa_fresh' = IF generate \/ state_arg = {} THEN oa_fresh + 1 ELSE oa_fresh
        /\ oa_state' = {state}
        /\ oa_issued' = Append(oa_issued, state)
  /\ UNCHANGED << oa_requests, oa_last >>

\* oauth.py 162-248: exchange_code_for_tokens on a redirect URL with the given
\* query; response is the answer of the token endpoint if it is asked
ExchangeCodeForTokens(query, response) ==
  /\ oa_calls < MaxOAuthCalls
  /\ UNCHANGED notOAuth
  /\ oa_calls' = oa_calls + 1
  /\ LET code == QueryParam(query, "code")
         state == QueryParam(query, "state")
     IN IF NoVerifier(oa_verifier)
        THEN /\ oa_last' = [raised |-> "PKCEError", sent |-> FALSE, tokens |-> FALSE,
                            query |-> query]
             /\ UNCHANGED oa_requests
        ELSE IF NoCode(code) \/ StateMismatch(state, oa_state)
        THEN /\ oa_last' = [raised |-> "TokenExchangeError", sent |-> FALSE,
                            tokens |-> FALSE, query |-> query]
             /\ UNCHANGED oa_requests
        ELSE /\ oa_requests' = Append(oa_requests,
                                      [grant_type |-> "authorization_code",
                                       code |-> code, code_verifier |-> oa_verifier])
             /\ oa_last' = [raised |-> IF response = "200" THEN "none"
                                       ELSE "TokenExchangeError",
                            sent |-> TRUE, tokens |-> response = "200", query |-> query]
  /\ UNCHANGED << oa_verifier, oa_challenge, oa_state, oa_issued, oa_fresh >>

NextOAuth ==
  \/ GeneratePkcePair
  \/ \E state_arg \in StateArgs : GetAuthorizationUrl(state_arg)
  \/ \E query \in RedirectQueries, response \in TokenResponses :
        ExchangeCodeForTokens(query, response)

----------------------------------------------------------------------------
(* The state file under the main loop's load, modify, save sequences
   (supervisor/main.py) and the budget updates of the State Store *)

MaxStateOps == 4      \* state updates started in one history

\* the costs update_budget adds
UsageCosts == {1, 2}

\* the read-modify-write sequences of the main loop thread
MainUpdates == {"tg_offset", "last_owner_message_at", "owner"}

NoSt == [loaded |-> FALSE, spent_usd |-> 0, tg_offset |-> 0,
         last_owner_message_at |-> 0, owner_id |-> 0]

\* state.load_state (spec 4.1, load): the snapshot on disk
load_state(file) == [loaded |-> TRUE, spent_usd |-> file.spent_usd,
                     tg_offset |-> file.tg_offset,
                     last_owner_message_at |-> file.last_owner_message_at,
                     owner_id |-> file.owner_id]

\* state.save_state (spec 4.1, save): the whole snapshot replaces the file
\* under the State-Store write lock
save_state(st) == [spent_usd |-> st.spent_usd, tg_offset |-> st.tg_offset,
                   last_owner_message_at |-> st.last_owner_message_at,
                   owner_id |-> st.owner_id]

\* main.py 181, 306, 569: st = state.load_state()
MainLoad(update) ==
  /\ ~main_st.loaded
  /\ UNCHANGED notState
  /\ st_ops < MaxStateOps
  /\ st_ops' = st_ops + 1
  /\ main_st' = load_state(st_file)
  /\ main_update' = update
  /\ UNCHANGED << st_file, spent_total >>

\* main.py 182-190, 307-308, 570-571: the field is set in the loaded copy and
\* state.save_state(st) writes the copy; _set_owner_if_needed saves only when
\* it changed a field
MainSave ==
  /\ main_st.loaded
  /\ UNCHANGED notState
  /\ LET st == CASE main_update = "tg_offset" ->
                      [main_st EXCEPT !.tg_offset = @ + 1]
                 [] main_update = "last_owner_message_at" ->
                      [main_st EXCEPT !.last_owner_message_at = @ + 1]
                 [] main_update = "owner" ->
                      [main_st EXCEPT !.owner_id = IF @ = 0 THEN 1 ELSE @]
     IN st_file' = IF main_update = "owner" /\ main_st.owner_id # 0 THEN st_file
                   ELSE save_state(st)
  /\ main_st' = NoSt
  /\ UNCHANGED << main_update, spent_total, st_ops >>

\* state.update_budget_from_usage (spec 4.1, update_budget) called by a thread
\* other than the main loop: spent_usd is incremented in one step under the
\* State-Store lock
ThreadUpdateBudget(cost) ==
  /\ st_ops < MaxStateOps
  /\ UNCHANGED notState
  /\ st_ops' = st_ops + 1
  /\ st_file' = [st_file EXCEPT !.spent_usd = @ + cost]
  /\ spent_total' = spent_total + cost
  /\ UNCHANGED << main_st, main_update >>

\* main.py 322-332 and 573: an llm_usage event handled by
\* _drain_worker_events in the main loop thread, between its own sequences
EventUpdateBudget(cost) ==
  /\ ~main_st.loaded
  /\ UNCHANGED notState
  /\ st_ops < MaxStateOps
  /\ st_ops' = st_ops + 1
  /\ st_file' = [st_file EXCEPT !.spent_usd = @ + cost]
  /\ spent_total' = spent_total + cost
  /\ UNCHANGED << main_st, main_update >>

NextState ==
  \/ \E update \in MainUpdates : MainLoad(update)
  \/ MainSave
  \/ \E cost \in UsageCosts : ThreadUpdateBudget(cost)
  \/ \E cost \in UsageCosts : EventUpdateBudget(cost)

----------------------------------------------------------------------------
(* Long runs of run_llm_loop: the rounds up to the self-checks and the budget
   nudges, with one tool call per round that returns in time *)

MaxLongRounds == 41   \* rounds of one long run_llm_loop invocation
MaxInjectRounds == 21 \* rounds of a long invocation that owner messages reach

\* budget_remaining_usd of a long run: not set, spent, and budgets that rounds
\* of cost 1 or 2 use by three tenths and by half at the rounds 10, 20, 30, 40
LongBudgets == {NoBudget, 0, 40, 160}

\* the usage record of an LLM call of a long run
LongUsage(cost) == [prompt_tokens |-> 1, completion_tokens |-> 0, cost |-> cost]

\* loop.py 251-271 and 289-315: an attempt succeeds; the response is final or
\* carries one run_shell call
LongChatOk(costs, max_rounds) ==
  /\ pc = "llm_call"
  /\ UNCHANGED notLoop
  /\ \E cost \in costs,
        reply \in {[content_len |-> 5, tool_calls |-> NoCalls],
                   [content_len |-> 0,
                    tool_calls |-> Calls(round_idx, << "run_shell" >>)]} :
        /\ (reply.tool_calls # NoCalls => round_idx < max_rounds)
        /\ accumulated' = [add_usage(accumulated, LongUsage(cost)) EXCEPT !.rounds = @ + 1]
        /\ round_events' = Append(round_events,
               [round |-> round_idx,
                prompt_tokens |-> LongUsage(cost).prompt_tokens,
                completion_tokens |-> LongUsage(cost).completion_tokens])
        /\ msg' = reply
        /\ IF IsFinalResponse(reply.tool_calls)
           THEN /\ pc' = "done"
                /\ ret' = [kind |-> "final", len |-> reply.content_len]
                /\ UNCHANGED << messages, tool_calls, can_parallel, exec, handler,
                                res, order >>
           ELSE /\ messages' = Append(messages, AssistantMsg(reply.tool_calls))
                /\ tool_calls' = reply.tool_calls
                /\ can_parallel' = CanParallel(reply.tool_calls)
                /\ exec' = [i \in 1..Len(reply.tool_calls) |-> "pending"]
                /\ handler' = [i \in 1..Len(reply.tool_calls) |-> "idle"]
                /\ res' = [i \in 1..Len(reply.tool_calls) |-> NoResult]
                /\ order' = <<>>
                /\ pc' = "tools"
                /\ UNCHANGED ret
  /\ attempt' = 0
  /\ backoff' = 0
  /\ UNCHANGED << incoming, injected_total, round_idx, active_model,
                  active_effort, budget, closure_calls >>

\* an owner message arrives on the injection queue of a long run
LongInject ==
  /\ pc # "done"
  /\ UNCHANGED notLoop
  /\ injected_total < MaxInjected + 1
  /\ injected_total' = injected_total + 1
  /\ incoming' = Append(incoming, injected_total + 1)
  /\ UNCHANGED << messages, round_idx, pc, attempt, backoff, msg, accumulated,
                  round_events, active_model, active_effort, budget, tool_calls,
                  can_parallel, exec, handler, res, order, closure_calls, ret >>

\* a long run under a budget, with failing LLM attempts
NextBudget ==
  \/ RoundStart
  \/ LongChatOk({1, 2}, MaxLongRounds)
  \/ LLMChatFail
  \/ \E i \in 1..NCalls : ToolStart(i)
  \/ \E i \in 1..NCalls : ExecReturn(i)
  \/ ProcessResults
  \/ ClosureChatOk
  \/ ClosureChatFail

\* a long run without a budget that owner messages reach
NextInject ==
  \/ RoundStart
  \/ LongChatOk({1}, MaxInjectRounds)
  \/ \E i \in 1..NCalls : ToolStart(i)
  \/ \E i \in 1..NCalls : ExecReturn(i)
  \/ ProcessResults
  \/ LongInject

----------------------------------------------------------------------------
(* The worker event queue and its drain (supervisor/main.py).  Events carry
   the sequence number of their put, so order and loss are visible *)

max_events == 200      \* default of _drain_worker_events
EventBurst == 201      \* events that arrive in one burst
MaxSinglePuts == 2     \* events that arrive one at a time

\* the events numbered from a to b in order
EventRun(a, b) == [i \in 1..(b - a + 1) |-> a + i - 1]

\* a drain whose limit test lets one event more through
WithinLimit_Inclusive(handled) == handled <= max_events

\* main.py 325: while handled < max_events
WithinLimit(handled) == handled < max_events

\* an event is put on the queue (a worker, or _dispatch_owner_message)
EventPut ==
  /\ ev_singles < MaxSinglePuts
  /\ UNCHANGED notEvents
  /\ ev_q' = Append(ev_q, ev_put + 1)
  /\ ev_put' = ev_put + 1
  /\ ev_singles' = ev_singles + 1
  /\ UNCHANGED << ev_pc, ev_handled, ev_last, ev_burst >>

\* a burst of events is put on the queue
EventPutBurst ==
  /\ ~ev_burst
  /\ UNCHANGED notEvents
  /\ ev_q' = ev_q \o EventRun(ev_put + 1, ev_put + EventBurst)
  /\ ev_put' = ev_put + EventBurst
  /\ ev_burst' = TRUE
  /\ UNCHANGED << ev_pc, ev_handled, ev_last, ev_singles >>

\* main.py 573, 322-324: the main loop calls _drain_worker_events
DrainCall ==
  /\ ev_pc = "idle"
  /\ UNCHANGED notEvents
  /\ ev_pc' = "drain"
  /\ ev_handled' = 0
  /\ UNCHANGED << ev_q, ev_put, ev_last, ev_singles, ev_burst >>

\* main.py 325-331: one pass of the while loop that finds an event:
\* q.get_nowait(), dispatch_event, handled += 1
DrainDispatch ==
  /\ ev_pc = "drain"
  /\ UNCHANGED notEvents
  /\ WithinLimit(ev_handled)
  /\ ev_q # << >>
  /\ ev_last' = Head(ev_q)
  /\ ev_q' = Tail(ev_q)
  /\ ev_handled' = ev_handled + 1
  /\ UNCHANGED << ev_pc, ev_put, ev_singles, ev_burst >>

\* main.py 328-329, 332: the queue is empty: break and return
DrainEmpty ==
  /\ ev_pc = "drain"
  /\ UNCHANGED notEvents
  /\ WithinLimit(ev_handled)
  /\ ev_q = << >>
  /\ ev_pc' = "idle"
  /\ UNCHANGED << ev_q, ev_put, ev_handled, ev_last, ev_singles, ev_burst >>

\* main.py 325, 332: handled has reached max_events: return
DrainLimit ==
  /\ ev_pc = "drain"
  /\ UNCHANGED notEvents
  /\ ~WithinLimit(ev_handled)
  /\ ev_pc' = "idle"
  /\ UNCHANGED << ev_q, ev_put, ev_handled, ev_last, ev_singles, ev_burst >>

NextEvents ==
  \/ EventPut
  \/ EventPutBurst
  \/ DrainCall
  \/ DrainDispatch
  \/ DrainEmpty
  \/ DrainLimit

----------------------------------------------------------------------------
(* One iteration of the main loop of run() and the exceptions of its calls
   (supervisor/main.py 522-595) *)

MaxBatch == 3          \* updates in one polled batch
MaxIterations == 2     \* iterations of the main loop that are followed

\* how processing one update can end
UpdateOutcomes == {"ok", "raises"}

\* batches the poll can return: every sequence of outcomes up to MaxBatch
Batches ==
  UNION {[1..n -> UpdateOutcomes] : n \in 0..MaxBatch}

\* main.py 568-577: the calls of an iteration after the loop over the updates
IterationCalls ==
  << "save_offset", "_drain_worker_events", "assign_tasks",
     "enforce_task_timeouts", "ensure_workers_healthy",
     "enqueue_evolution_task_if_needed" >>

\* only the poll stands in a try block
AfterRaise_PollOnly(where) ==
  IF where = "get_updates" THEN "caught" ELSE "uncaught"

\* main.py 525-527 and 539-558: get_updates and the body of the loop over the
\* updates stand in try blocks with except Exception; the calls after them do
\* not
AfterRaise(where) ==
  IF where \in {"get_updates", "update"} THEN "caught" ELSE "uncaught"

\* main.py 522: while not stop_flag["stop"]
IterLoopTest ==
  /\ it_pc = "loop_test"
  /\ UNCHANGED notIter
  /\ it_iters < MaxIterations
  /\ it_pc' = "poll"
  /\ it_log' = << >>
  /\ it_size' = 0
  /\ it_call' = 0
  /\ UNCHANGED << it_batch, it_iters, it_cause, it_errors >>

\* main.py 525-526: get_updates returns a batch
IterPoll ==
  /\ it_pc = "poll"
  /\ UNCHANGED notIter
  /\ \E updates \in Batches :
        /\ it_batch' = updates
        /\ it_size' = Len(updates)
  /\ it_pc' = "updates"
  /\ UNCHANGED << it_log, it_iters, it_cause, it_call, it_errors >>

\* main.py 525-536: get_updates raises
IterPollRaises ==
  /\ it_pc = "poll"
  /\ UNCHANGED notIter
  /\ IF AfterRaise("get_updates") = "caught"
     THEN /\ it_batch' = << >>
          /\ it_errors' = Append(it_errors, "telegram_poll_error")
          /\ it_pc' = "updates"
          /\ UNCHANGED it_cause
     ELSE /\ it_pc' = "ended"
          /\ it_cause' = "get_updates"
          /\ UNCHANGED << it_batch, it_errors >>
  /\ UNCHANGED << it_log, it_size, it_iters, it_call >>

\* main.py 538-566: the body of the loop over the updates for the next update
IterUpdate ==
  /\ it_pc = "updates"
  /\ UNCHANGED notIter
  /\ it_batch # << >>
  /\ IF Head(it_batch) = "ok"
     THEN /\ it_log' = Append(it_log, "ok")
          /\ it_batch' = Tail(it_batch)
          /\ UNCHANGED << it_pc, it_cause, it_errors >>
     ELSE IF AfterRaise("update") = "caught"
     THEN /\ it_log' = Append(it_log, "raised")
          /\ it_batch' = Tail(it_batch)
          /\ it_errors' = Append(it_errors, "update_process_error")
          /\ UNCHANGED << it_pc, it_cause >>
     ELSE /\ it_pc' = "ended"
          /\ it_cause' = "update"
          /\ UNCHANGED << it_log, it_batch, it_errors >>
  /\ UNCHANGED << it_size, it_iters, it_call >>

\* main.py 538, 568: the loop over the updates is over
IterUpdatesEnd ==
  /\ it_pc = "updates"
  /\ UNCHANGED notIter
  /\ it_batch = << >>
  /\ it_pc' = "calls"
  /\ it_call' = 1
  /\ UNCHANGED << it_batch, it_log, it_size, it_iters, it_cause, it_errors >>

\* main.py 568-577: the next call of the iteration returns
IterCall ==
  /\ it_pc = "calls"
  /\ UNCHANGED notIter
  /\ IF it_call < Len(IterationCalls)
     THEN /\ it_call' = it_call + 1
          /\ UNCHANGED << it_pc, it_iters >>
     ELSE /\ it_pc' = "loop_test"
          /\ it_iters' = it_iters + 1
          /\ UNCHANGED it_call
  /\ UNCHANGED << it_batch, it_log, it_size, it_cause, it_errors >>

\* main.py 568-577: the next call of the iteration raises
IterCallRaises ==
  /\ it_pc = "calls"
  /\ UNCHANGED notIter
  /\ AfterRaise(IterationCalls[it_call]) = "uncaught"
  /\ it_pc' = "ended"
  /\ it_cause' = IterationCalls[it_call]
  /\ UNCHANGED << it_batch, it_log, it_size, it_iters, it_call, it_errors >>

NextIter ==
  \/ IterLoopTest
  \/ IterPoll
  \/ IterPollRaises
  \/ IterUpdate
  \/ IterUpdatesEnd
  \/ IterCall
  \/ IterCallRaises

----------------------------------------------------------------------------
(* An owner message in _process_telegram_update and _handle_command
   (supervisor/main.py 200-245, 302-319).  Texts are sequences of characters *)

Slash == << "/" >>

\* the command words _handle_command tests for, in its order
CmdStatus == << "/", "s", "t", "a", "t", "u", "s" >>
CmdQueue == << "/", "q", "u", "e", "u", "e" >>
CmdCancel == << "/", "c", "a", "n", "c", "e", "l" >>
CmdEvolve == << "/", "e", "v", "o", "l", "v", "e" >>
CmdHelp == << "/", "h", "e", "l", "p" >>
CmdStart == << "/", "s", "t", "a", "r", "t" >>

\* texts of the messages that are tried
OwnerTexts ==
  { << "h", "i" >>,
    << "/", "s", "t", "a", "t", "u", "s" >>,
    << "/", "q", "u", "e", "u", "e" >>,
    << "/", "c", "a", "n", "c", "e", "l" >>,
    << "/", "c", "a", "n", "c", "e", "l", " ", "7" >>,
    << "/", "e", "v", "o", "l", "v", "e", " ", "s", "t", "a", "r", "t" >>,
    << "/", "e", "v", "o", "l", "v", "e", " ", "O", "F", "F" >>,
    << "/", "e", "v", "o", "l", "v", "e" >>,
    << "/", "h", "e", "l", "p" >>,
    << "/", "s", "t", "a", "r", "t" >>,
    << "/", "f", "o", "o" >>,
    << " ", "/", "h", "e", "l", "p", " " >>,
    << "/", "h", "e", "l", "p", "m", "e" >>,
    << "/", "s", "t", "a", "t", "u", "s", "?" >>,
    << " " >>,
    << "h", "i", " ", "/", "h", "e", "l", "p" >>,
    << >> }

\* captions of the messages that are tried
OwnerCaptions == { << >>, << "s", "e", "e" >> }

\* " " in cmd: cmd.split(maxsplit=1) has two parts (cmd is stripped)
HasArgument(cmd) == \E i \in 1..Len(cmd) : cmd[i] = " "

\* cmd.split(maxsplit=1)[0]
RECURSIVE FirstWord(_)
FirstWord(cmd) ==
  IF cmd = << >> \/ Head(cmd) = " " THEN << >>
  ELSE << Head(cmd) >> \o FirstWord(Tail(cmd))

\* cmd.split(maxsplit=1)[1].strip().lower(), "" without a second part
CommandArg(cmd) ==
  lower(strip(SubSeq(cmd, Len(FirstWord(cmd)) + 1, Len(cmd))))

\* main.py 205, 210, 214, 223, 242: cmd.startswith(word)
IsCommand(cmd, word) == startswith(cmd, word)

\* main.py 200-245: whether _handle_command handled the text, and the head of
\* the reply it sent
_handle_command(text) ==
  LET cmd == strip(text)
      arg == CommandArg(cmd)
      Handled(reply) == [handled |-> TRUE, reply |-> reply]
  IN IF ~startswith(cmd, Slash) THEN [handled |-> FALSE, reply |-> "none"]
     ELSE IF IsCommand(cmd, CmdStatus) THEN Handled("status")
     ELSE IF IsCommand(cmd, CmdQueue) THEN Handled("Pending")
     ELSE IF IsCommand(cmd, CmdCancel)
          THEN IF ~HasArgument(cmd) THEN Handled("Usage: /cancel")
               ELSE Handled("cancel")
     ELSE IF IsCommand(cmd, CmdEvolve)
          THEN IF arg \in {<< "s", "t", "a", "r", "t" >>, << "o", "n" >>, << "1" >>} THEN Handled("Evolution ON")
               ELSE IF arg \in {<< "s", "t", "o", "p" >>, << "o", "f", "f" >>, << "0" >>} THEN Handled("Evolution OFF")
               ELSE Handled("Usage: /evolve")
     ELSE IF IsCommand(cmd, CmdHelp) \/ IsCommand(cmd, CmdStart)
          THEN Handled("Commands")
     ELSE [handled |-> FALSE, reply |-> "none"]

NoDispatch == << "no dispatch" >>
ImageAttached == << "(image attached)" >>
NotProcessed == [reply |-> "none", dispatch_text |-> NoDispatch, called |-> FALSE]

\* main.py 302-319: the owner's message from the strip of its text on: the
\* reply of the command, or the text handed to _dispatch_owner_message
ProcessOwnerMessage(msg_text, msg_caption, image_data) ==
  LET text == strip(msg_text)
      caption == strip(msg_caption)
      cmd == IF text # << >> THEN _handle_command(text)
             ELSE [handled |-> FALSE, reply |-> "none"]
      text_or_caption == IF text # << >> THEN text ELSE caption
      dispatch_text == IF text_or_caption = << >> /\ image_data
                       THEN ImageAttached ELSE text_or_caption
  IN IF cmd.handled
     THEN [reply |-> cmd.reply, dispatch_text |-> NoDispatch, called |-> TRUE]
     ELSE IF dispatch_text = << >>
     THEN [reply |-> "none", dispatch_text |-> NoDispatch, called |-> TRUE]
     ELSE [reply |-> "none", dispatch_text |-> dispatch_text, called |-> TRUE]

\* the owner's next message arrives
OwnerMessage ==
  /\ om_out.called
  /\ UNCHANGED notOwner
  /\ \E t \in OwnerTexts, c \in OwnerCaptions, img \in BOOLEAN :
        /\ om_text' = t
        /\ om_caption' = c
        /\ om_image' = img
  /\ om_out' = NotProcessed

\* main.py 302-319: _process_telegram_update handles it
OwnerMessageProcessed ==
  /\ ~om_out.called
  /\ UNCHANGED notOwner
  /\ om_out' = ProcessOwnerMessage(om_text, om_caption, om_image)
  /\ UNCHANGED << om_text, om_caption, om_image >>

NextOwner ==
  \/ OwnerMessage
  \/ OwnerMessageProcessed

----------------------------------------------------------------------------
(* A supervisor that starts alone: the lock files it may find, and the
   restart of a supervisor by exec (supervisor/main.py) *)

\* pids of live processes that are no supervisor: os.kill(pid, 0) succeeds,
\* /proc/<pid>/cmdline does not hold supervisor.main
OtherProgramPids == {8}

\* what may lie at the lock path when a supervisor starts: nothing, an empty
\* file, the file of a crashed supervisor whose pid is gone, a file whose pid
\* now belongs to another program, and a file that holds the pid of one of
\* the supervisor processes
LeftOverFiles ==
  { NoFile, [inode |-> 9, pid |-> 0], StaleFile }
    \cup { [inode |-> 9, pid |-> q] : q \in OtherProgramPids \cup Sups }

\* no supervisor process but p is alive
Alone(p) == \A q \in Sups \ {p} : ~ProcessAlive(q, sup_pc)

\* main.py 402-407: a supervisor starts while no other one is alive
SupStartAlone(p) ==
  /\ Alone(p)
  /\ SupStart(p)

\* safe restart: the supervisor replaces its image by exec; the pid stays, the
\* descriptors are closed, and the new image runs run() from its first line.
\* The old image may or may not have removed its lock file before the exec
SupExec(p) ==
  /\ sup_pc[p] = "holding"
  /\ UNCHANGED notLock
  /\ \E released \in BOOLEAN :
        lock_file' = IF released THEN NoFile ELSE lock_file
  /\ lock_fd' = [lock_fd EXCEPT ![p] = 0]
  /\ existing_pid' = [existing_pid EXCEPT ![p] = 0]
  /\ sup_pc' = [sup_pc EXCEPT ![p] = "check_exists"]

NextLockAlone ==
  \E p \in Sups :
     \/ SupStartAlone(p)
     \/ LockCheckExists(p)
     \/ LockReadPid(p)
     \/ LockCheckAlive(p)
     \/ LockUnlinkStale(p)
     \/ LockOpenExcl(p)
     \/ LockWritePid(p)
     \/ SupExitRefused(p)
     \/ SupShutdown(p)
     \/ SupKilled(p)
     \/ SupExec(p)

----------------------------------------------------------------------------
(* The control flow of run_llm_loop over any number of rounds
   (ouroboros/loop.py).  Only what decides whether the loop goes on is kept:
   the round counter as far as the code tests it, the retry counter, the
   accumulated cost and the budget.  The conversation and the token counts
   grow without deciding anything and are left out *)

TermCostCap == 3      \* accumulated cost is followed up to this value

\* the cost a successful LLM call reports: none, or one unit
TermCosts == {0, 1}

\* budget_remaining_usd: not given, exhausted, or four units
TermBudgets == {NoBudget, 0, 4}

\* run_llm_loop before its first round, called with the budget b:
\*   pc        where the loop stands
\*   round     round_idx, as far as the code tests it
\*   attempt   attempt of the retry loop
\*   cost      accumulated_usage["cost"]
\*   budget    budget_remaining_usd
\*   ret       what the loop returned
\*   unpriced  some successful LLM call reported no cost
TermStart(b) ==
  [pc |-> "round_start", round |-> 0, attempt |-> 0, cost |-> 0, budget |-> b,
   ret |-> "none", unpriced |-> FALSE]

\* loop.py 204: round_idx += 1.  The code tests round_idx > 1, >= 5, >= 10,
\* % 10 and % soft_check_interval only, so the rounds after the second
\* self-check are kept by what these tests see of them
NextRoundIdx(r) ==
  IF r = 2 * SoftCheckInterval THEN SoftCheckInterval + 1 ELSE r + 1

\* llm.py 51-56: add_usage on the cost; without a budget the loop never
\* reads the sum, which is then followed up to TermCostCap
AddCost(total, cost) == Min(total + cost, TermCostCap)

\* loop.py 204-244: the head of a round
TermRoundStart ==
  /\ tm.pc = "round_start"
  /\ UNCHANGED notTerm
  /\ tm' = [tm EXCEPT !.round = NextRoundIdx(@), !.attempt = 0, !.pc = "llm_call"]

\* loop.py 251-271 and 289-315: llm.chat returns; a response without tool
\* calls is returned, one with tool calls goes to the tools
TermChatOk ==
  /\ tm.pc = "llm_call"
  /\ UNCHANGED notTerm
  /\ \E cost \in TermCosts, calls \in {NoCalls, Calls(1, << "run_shell" >>)} :
        tm' = [tm EXCEPT !.cost = AddCost(@, cost),
                         !.unpriced = (@ \/ cost = 0),
                         !.pc = IF IsFinalResponse(calls) THEN "done" ELSE "tools",
                         !.ret = IF IsFinalResponse(calls) THEN "final" ELSE @]

\* loop.py 272-287: llm.chat raises; the loop sleeps and retries, and
\* returns the error text after max_retries attempts
TermChatFail ==
  /\ tm.pc = "llm_call"
  /\ UNCHANGED notTerm
  /\ tm' = IF tm.attempt < MaxRetries - 1
           THEN [tm EXCEPT !.attempt = @ + 1]
           ELSE [tm EXCEPT !.pc = "done", !.ret = "error"]

\* loop.py 317-336: every tool call of the round has returned or run into
\* its timeout
TermToolsReturn ==
  /\ tm.pc = "tools"
  /\ UNCHANGED notTerm
  /\ tm' = [tm EXCEPT !.pc = "guard"]

\* loop.py 374-395: the budget guard sends the loop to the closing call or
\* to its next round
TermBudgetGuard ==
  /\ tm.pc = "guard"
  /\ UNCHANGED notTerm
  /\ tm' = [tm EXCEPT !.pc = IF tm.budget # NoBudget /\ OverHalf(tm.cost, tm.budget)
                             THEN "closure_call" ELSE "round_start"]

\* loop.py 384-392: the closing call answers or raises; the loop returns
TermClosure ==
  /\ tm.pc = "closure_call"
  /\ UNCHANGED notTerm
  /\ \E answered \in BOOLEAN, cost \in TermCosts :
        tm' = [tm EXCEPT !.cost = IF answered THEN AddCost(@, cost) ELSE @,
                         !.unpriced = (@ \/ (answered /\ cost = 0)),
                         !.ret = IF answered THEN "closure" ELSE "finish_reason",
                         !.pc = "done"]

NextTerm ==
  \/ TermRoundStart
  \/ TermChatOk
  \/ TermChatFail
  \/ TermToolsReturn
  \/ TermBudgetGuard
  \/ TermClosure

----------------------------------------------------------------------------
(* OuroborosAgent.handle_task and its _llm_with_tools (ouroboros/agent.py):
   the usage that the llm_usage event of a task carries.  The conversation
   is not followed here; a tool round runs its tools inside the step of the
   LLM call that asked for them *)

MaxToolRounds == 3    \* OUROBOROS_MAX_TOOL_ROUNDS of the runs followed
llm_max_retries == 3

\* a usage dict without entries counts nothing
EmptyUsage == [prompt_tokens |-> 0, completion_tokens |-> 0, cost |-> 0]

\* resp_dict.get("usage", {}) or {}: what a response reports
AgentUsages == Usages \cup {EmptyUsage}

\* the sum of two usage records, entry by entry
SumUsage(a, b) ==
  [prompt_tokens |-> a.prompt_tokens + b.prompt_tokens,
   completion_tokens |-> a.completion_tokens + b.completion_tokens,
   cost |-> a.cost + b.cost]

\* the events of a task in the order handle_task appends them
LlmUsageEvent(usage) == [type |-> "llm_usage", usage |-> usage]
SendMessageEvent == [type |-> "send_message", usage |-> EmptyUsage]
TaskDoneEvent == [type |-> "task_done", usage |-> EmptyUsage]

\* handle_task when it calls _llm_with_tools:
\*   pc          where handle_task stands
\*   round       round_idx of _llm_with_tools
\*   attempt     attempt of the retry loop
\*   last_usage  last_usage of _llm_with_tools
\*   usage       usage of handle_task
\*   total       sum of the usage of the successful LLM calls of the task
\*   calls       successful LLM calls of the task
\*   text        what _llm_with_tools ended with
\*   events      the events handle_task returned
AgentStart ==
  [pc |-> "llm_call", round |-> 0, attempt |-> 0, last_usage |-> EmptyUsage,
   usage |-> EmptyUsage, total |-> EmptyUsage, calls |-> 0, text |-> "none",
   events |-> << >>]

\* agent.py 653-663 and 692-791: the call answers.  last_usage is set to the
\* usage of this response; with tool calls the tools run and the next round
\* follows, or the round limit ends the loop; without, the content is
\* returned.  Every return hands out last_usage
AgentChatOk ==
  /\ ag.pc = "llm_call"
  /\ UNCHANGED notAgent
  /\ \E u \in AgentUsages, has_tool_calls \in BOOLEAN :
        LET called == [ag EXCEPT !.last_usage = u,
                                 !.total = SumUsage(@, u),
                                 !.calls = @ + 1]
        IN ag' = IF has_tool_calls /\ ag.round + 1 < MaxToolRounds
                 THEN [called EXCEPT !.round = @ + 1, !.attempt = 0]
                 ELSE [called EXCEPT
                         !.pc = "returned",
                         !.usage = called.last_usage,
                         !.text = IF has_tool_calls THEN "round limit" ELSE "content"]

\* agent.py 664-690: the call raises; after llm_max_retries attempts the
\* error text is returned with last_usage
AgentChatFail ==
  /\ ag.pc = "llm_call"
  /\ UNCHANGED notAgent
  /\ ag' = IF ag.attempt < llm_max_retries - 1
           THEN [ag EXCEPT !.attempt = @ + 1]
           ELSE [ag EXCEPT !.pc = "returned",
                           !.usage = ag.last_usage,
                           !.text = "no response"]

\* agent.py 365-381: an exception leaves _llm_with_tools (a response or a
\* tool call of unexpected shape); handle_task logs it and keeps the empty
\* usage it started with
AgentRaises ==
  /\ ag.pc = "llm_call"
  /\ UNCHANGED notAgent
  /\ ag' = [ag EXCEPT !.pc = "returned", !.usage = EmptyUsage, !.text = "task_error"]

\* agent.py 383-450: handle_task appends the llm_usage event, the message
\* for the owner and task_done, and returns the events
AgentEmit ==
  /\ ag.pc = "returned"
  /\ UNCHANGED notAgent
  /\ ag' = [ag EXCEPT
              !.events = << LlmUsageEvent(ag.usage), SendMessageEvent, TaskDoneEvent >>,
              !.pc = "done"]

NextAgent ==
  \/ AgentChatOk
  \/ AgentChatFail
  \/ AgentRaises
  \/ AgentEmit

----------------------------------------------------------------------------
(* Specifications *)

\* run_llm_loop is entered with the prompt of a task (loop.py 155-200)
InitLoop ==
  /\ messages = PromptMsgs
  /\ incoming = << >>
  /\ injected_total = 0
  /\ round_idx = 0
  /\ pc = "round_start"
  /\ attempt = 0
  /\ backoff = 0
  /\ msg = NoMsg
  /\ accumulated = [prompt_tokens |-> 0, completion_tokens |-> 0, cost |-> 0, rounds |-> 0]
  /\ round_events = << >>
  /\ active_model = ModelProfile("").model
  /\ active_effort = ModelProfile("").effort
  /\ budget \in Budgets
  /\ tool_calls = NoCalls
  /\ can_parallel = FALSE
  /\ exec = << >>
  /\ handler = << >>
  /\ res = << >>
  /\ order = << >>
  /\ closure_calls = 0
  /\ ret = NoRet
  /\ lock_file = NoFile
  /\ sup_pc = [p \in Sups |-> "not_started"]
  /\ existing_pid = [p \in Sups |-> 0]
  /\ lock_fd = [p \in Sups |-> 0]
  /\ git_lock = FALSE
  /\ git_pc = [w \in GitWorkers |-> "idle"]
  /\ git_op = [w \in GitWorkers |-> "repo_write_commit"]
  /\ git_step = [w \in GitWorkers |-> 0]
  /\ git_ret = [w \in GitWorkers |-> "none"]
  /\ git_log = [w \in GitWorkers |-> << >>]
  /\ git_text = [w \in GitWorkers |-> << "f", "i", "x" >>]
  /\ offset = 0
  /\ recent_update_ids = {}
  /\ recent_update_order = << >>
  /\ owner_id = 0
  /\ dispatched = << >>
  /\ evicted = << >>
  /\ next_update_id = 1
  /\ first_updates = << >>
  /\ redelivered = << >>
  /\ state_file = [owner_id |-> 0, owner_chat_id |-> 0]
  /\ delivered = 0
  /\ last_update = NoOutcome
  /\ first_seen = 0
  /\ chat_threads = << >>
  /\ begun = << >>
  /\ ended = << >>
  /\ run_pc = "loop_test"
  /\ stop_flag = FALSE
  /\ lock_present = TRUE
  /\ run_offset = 0
  /\ saved_offset = 0
  /\ handled_updates = 0
  /\ task_type = << >>
  /\ PENDING = {}
  /\ RUNNING = {}
  /\ terminal = {}
  /\ snapshot = [pending |-> {}, running |-> {}]
  /\ chat_handling = {}
  /\ evolution_enabled = FALSE
  /\ restarts = 0
  /\ failed_step = "none"
  /\ last_reply = "none"
  /\ llm_model = << >>
  /\ llm_selector = << >>
  /\ llm_keys = {}
  /\ llm_result = NotCalled
  /\ oa_verifier = {}
  /\ oa_challenge = {}
  /\ oa_state = {}
  /\ oa_issued = << >>
  /\ oa_requests = << >>
  /\ oa_last = NoExchange
  /\ oa_fresh = 0
  /\ oa_calls = 0
  /\ st_file = [spent_usd |-> 0, tg_offset |-> 0, last_owner_message_at |-> 0, owner_id |-> 0]
  /\ main_st = NoSt
  /\ main_update = "tg_offset"
  /\ spent_total = 0
  /\ st_ops = 0
  /\ ev_q = << >>
  /\ ev_put = 0
  /\ ev_pc = "idle"
  /\ ev_handled = 0
  /\ ev_last = 0
  /\ ev_singles = 0
  /\ ev_burst = FALSE
  /\ it_pc = "loop_test"
  /\ it_batch = << >>
  /\ it_size = 0
  /\ it_log = << >>
  /\ it_call = 0
  /\ it_iters = 0
  /\ it_cause = "none"
  /\ it_errors = << >>
  /\ om_text = << >>
  /\ om_caption = << >>
  /\ om_image = FALSE
  /\ om_out = [reply |-> "none", dispatch_text |-> << "no dispatch" >>, called |-> TRUE]
  /\ tm = TermStart(NoBudget)
  /\ ag = AgentStart
  /\ last_call = NoCall
  /\ code_round = 0

SpecLoop == InitLoop /\ [][NextLoop]_vars

\* The loop thread, the LLM calls and the timers always make their step; a
\* tool handler that missed its deadline need not ever return.
FairSpecLoop == InitLoop /\ [][NextLoop]_vars /\ WF_vars(LoopStep)

\* two supervisors are about to start; an earlier one may have left its lock file
InitLock ==
  /\ messages = PromptMsgs
  /\ incoming = << >>
  /\ injected_total = 0
  /\ round_idx = 0
  /\ pc = "round_start"
  /\ attempt = 0
  /\ backoff = 0
  /\ msg = NoMsg
  /\ accumulated = [prompt_tokens |-> 0, completion_tokens |-> 0, cost |-> 0, rounds |-> 0]
  /\ round_events = << >>
  /\ active_model = ModelProfile("").model
  /\ active_effort = ModelProfile("").effort
  /\ budget = NoBudget
  /\ tool_calls = NoCalls
  /\ can_parallel = FALSE
  /\ exec = << >>
  /\ handler = << >>
  /\ res = << >>
  /\ order = << >>
  /\ closure_calls = 0
  /\ ret = NoRet
  /\ lock_file \in {NoFile, StaleFile}
  /\ sup_pc = [p \in Sups |-> "not_started"]
  /\ existing_pid = [p \in Sups |-> 0]
  /\ lock_fd = [p \in Sups |-> 0]
  /\ git_lock = FALSE
  /\ git_pc = [w \in GitWorkers |-> "idle"]
  /\ git_op = [w \in GitWorkers |-> "repo_write_commit"]
  /\ git_step = [w \in GitWorkers |-> 0]
  /\ git_ret = [w \in GitWorkers |-> "none"]
  /\ git_log = [w \in GitWorkers |-> << >>]
  /\ git_text = [w \in GitWorkers |-> << "f", "i", "x" >>]
  /\ offset = 0
  /\ recent_update_ids = {}
  /\ recent_update_order = << >>
  /\ owner_id = 0
  /\ dispatched = << >>
  /\ evicted = << >>
  /\ next_update_id = 1
  /\ first_updates = << >>
  /\ redelivered = << >>
  /\ state_file = [owner_id |-> 0, owner_chat_id |-> 0]
  /\ delivered = 0
  /\ last_update = NoOutcome
  /\ first_seen = 0
  /\ chat_threads = << >>
  /\ begun = << >>
  /\ ended = << >>
  /\ run_pc = "loop_test"
  /\ stop_flag = FALSE
  /\ lock_present = TRUE
  /\ run_offset = 0
  /\ saved_offset = 0
  /\ handled_updates = 0
  /\ task_type = << >>
  /\ PENDING = {}
  /\ RUNNING = {}
  /\ terminal = {}
  /\ snapshot = [pending |-> {}, running |-> {}]
  /\ chat_handling = {}
  /\ evolution_enabled = FALSE
  /\ restarts = 0
  /\ failed_step = "none"
  /\ last_reply = "none"
  /\ llm_model = << >>
  /\ llm_selector = << >>
  /\ llm_keys = {}
  /\ llm_result = NotCalled
  /\ oa_verifier = {}
  /\ oa_challenge = {}
  /\ oa_state = {}
  /\ oa_issued = << >>
  /\ oa_requests = << >>
  /\ oa_last = NoExchange
  /\ oa_fresh = 0
  /\ oa_calls = 0
  /\ st_file = [spent_usd |-> 0, tg_offset |-> 0, last_owner_message_at |-> 0, owner_id |-> 0]
  /\ main_st = NoSt
  /\ main_update = "tg_offset"
  /\ spent_total = 0
  /\ st_ops = 0
  /\ ev_q = << >>
  /\ ev_put = 0
  /\ ev_pc = "idle"
  /\ ev_handled = 0
  /\ ev_last = 0
  /\ ev_singles = 0
  /\ ev_burst = FALSE
  /\ it_pc = "loop_test"
  /\ it_batch = << >>
  /\ it_size = 0
  /\ it_log = << >>
  /\ it_call = 0
  /\ it_iters = 0
  /\ it_cause = "none"
  /\ it_errors = << >>
  /\ om_text = << >>
  /\ om_caption = << >>
  /\ om_image = FALSE
  /\ om_out = [reply |-> "none", dispatch_text |-> << "no dispatch" >>, called |-> TRUE]
  /\ tm = TermStart(NoBudget)
  /\ ag = AgentStart
  /\ last_call = NoCall
  /\ code_round = 0

SpecLock == InitLock /\ [][NextLock]_vars

\* the workers are idle and no git.lock exists
InitGit ==
  /\ messages = PromptMsgs
  /\ incoming = << >>
  /\ injected_total = 0
  /\ round_idx = 0
  /\ pc = "round_start"
  /\ attempt = 0
  /\ backoff = 0
  /\ msg = NoMsg
  /\ accumulated = [prompt_tokens |-> 0, completion_tokens |-> 0, cost |-> 0, rounds |-> 0]
  /\ round_events = << >>
  /\ active_model = ModelProfile("").model
  /\ active_effort = ModelProfile("").effort
  /\ budget = NoBudget
  /\ tool_calls = NoCalls
  /\ can_parallel = FALSE
  /\ exec = << >>
  /\ handler = << >>
  /\ res = << >>
  /\ order = << >>
  /\ closure_calls = 0
  /\ ret = NoRet
  /\ lock_file = NoFile
  /\ sup_pc = [p \in Sups |-> "not_started"]
  /\ existing_pid = [p \in Sups |-> 0]
  /\ lock_fd = [p \in Sups |-> 0]
  /\ git_lock = FALSE
  /\ git_pc = [w \in GitWorkers |-> "idle"]
  /\ git_op = [w \in GitWorkers |-> "repo_write_commit"]
  /\ git_step = [w \in GitWorkers |-> 0]
  /\ git_ret = [w \in GitWorkers |-> "none"]
  /\ git_log = [w \in GitWorkers |-> << >>]
  /\ git_text = [w \in GitWorkers |-> << "f", "i", "x" >>]
  /\ offset = 0
  /\ recent_update_ids = {}
  /\ recent_update_order = << >>
  /\ owner_id = 0
  /\ dispatched = << >>
  /\ evicted = << >>
  /\ next_update_id = 1
  /\ first_updates = << >>
  /\ redelivered = << >>
  /\ state_file = [owner_id |-> 0, owner_chat_id |-> 0]
  /\ delivered = 0
  /\ last_update = NoOutcome
  /\ first_seen = 0
  /\ chat_threads = << >>
  /\ begun = << >>
  /\ ended = << >>
  /\ run_pc = "loop_test"
  /\ stop_flag = FALSE
  /\ lock_present = TRUE
  /\ run_offset = 0
  /\ saved_offset = 0
  /\ handled_updates = 0
  /\ task_type = << >>
  /\ PENDING = {}
  /\ RUNNING = {}
  /\ terminal = {}
  /\ snapshot = [pending |-> {}, running |-> {}]
  /\ chat_handling = {}
  /\ evolution_enabled = FALSE
  /\ restarts = 0
  /\ failed_step = "none"
  /\ last_reply = "none"
  /\ llm_model = << >>
  /\ llm_selector = << >>
  /\ llm_keys = {}
  /\ llm_result = NotCalled
  /\ oa_verifier = {}
  /\ oa_challenge = {}
  /\ oa_state = {}
  /\ oa_issued = << >>
  /\ oa_requests = << >>
  /\ oa_last = NoExchange
  /\ oa_fresh = 0
  /\ oa_calls = 0
  /\ st_file = [spent_usd |-> 0, tg_offset |-> 0, last_owner_message_at |-> 0, owner_id |-> 0]
  /\ main_st = NoSt
  /\ main_update = "tg_offset"
  /\ spent_total = 0
  /\ st_ops = 0
  /\ ev_q = << >>
  /\ ev_put = 0
  /\ ev_pc = "idle"
  /\ ev_handled = 0
  /\ ev_last = 0
  /\ ev_singles = 0
  /\ ev_burst = FALSE
  /\ it_pc = "loop_test"
  /\ it_batch = << >>
  /\ it_size = 0
  /\ it_log = << >>
  /\ it_call = 0
  /\ it_iters = 0
  /\ it_cause = "none"
  /\ it_errors = << >>
  /\ om_text = << >>
  /\ om_caption = << >>
  /\ om_image = FALSE
  /\ om_out = [reply |-> "none", dispatch_text |-> << "no dispatch" >>, called |-> TRUE]
  /\ tm = TermStart(NoBudget)
  /\ ag = AgentStart
  /\ last_call = NoCall
  /\ code_round = 0

SpecGit == InitGit /\ [][NextGit]_vars

\* Worker Pool health: a worker past its hard deadline, or one that crashed,
\* is terminated at whatever line it stands and replaced by a fresh process
\* in the same slot; nothing of the killed process runs again, its finally
\* blocks included, so the lock file stays as it is
GitKill(w) ==
  /\ git_pc[w] # "idle"
  /\ UNCHANGED notGit
  /\ git_pc' = [git_pc EXCEPT ![w] = "idle"]
  /\ git_step' = [git_step EXCEPT ![w] = 0]
  /\ git_ret' = [git_ret EXCEPT ![w] = "killed"]
  /\ UNCHANGED << git_lock, git_op, git_log, git_text >>

\* what a live worker does on its own once it has called a git tool
GitProgress(w) ==
  \/ GitLockCheck(w)
  \/ GitLockWrite(w)
  \/ GitStepOk(w)
  \/ GitStepFail(w)
  \/ GitReleaseCheck(w)
  \/ GitReleaseUnlink(w)

NextGitKill ==
  \E w \in GitWorkers :
     \/ GitToolCall(w)
     \/ GitProgress(w)
     \/ GitKill(w)

\* Every live worker keeps running: its poll wakes up every half second, its
\* git commands end, its finally block runs.  A poll that finds the lock
\* free again and again gets through at some time.  Kills need not happen.
FairSpecGit ==
  /\ InitGit
  /\ [][NextGitKill]_vars
  /\ \A w \in GitWorkers : WF_vars(GitProgress(w))
  /\ \A w \in GitWorkers : SF_vars(GitLockCheck(w) /\ ~git_lock)

\* the supervisor enters its main loop (main.py 517-519)
InitUpdates ==
  /\ messages = PromptMsgs
  /\ incoming = << >>
  /\ injected_total = 0
  /\ round_idx = 0
  /\ pc = "round_start"
  /\ attempt = 0
  /\ backoff = 0
  /\ msg = NoMsg
  /\ accumulated = [prompt_tokens |-> 0, completion_tokens |-> 0, cost |-> 0, rounds |-> 0]
  /\ round_events = << >>
  /\ active_model = ModelProfile("").model
  /\ active_effort = ModelProfile("").effort
  /\ budget = NoBudget
  /\ tool_calls = NoCalls
  /\ can_parallel = FALSE
  /\ exec = << >>
  /\ handler = << >>
  /\ res = << >>
  /\ order = << >>
  /\ closure_calls = 0
  /\ ret = NoRet
  /\ lock_file = NoFile
  /\ sup_pc = [p \in Sups |-> "not_started"]
  /\ existing_pid = [p \in Sups |-> 0]
  /\ lock_fd = [p \in Sups |-> 0]
  /\ git_lock = FALSE
  /\ git_pc = [w \in GitWorkers |-> "idle"]
  /\ git_op = [w \in GitWorkers |-> "repo_write_commit"]
  /\ git_step = [w \in GitWorkers |-> 0]
  /\ git_ret = [w \in GitWorkers |-> "none"]
  /\ git_log = [w \in GitWorkers |-> << >>]
  /\ git_text = [w \in GitWorkers |-> << "f", "i", "x" >>]
  /\ offset = 0
  /\ recent_update_ids = {}
  /\ recent_update_order = << >>
  /\ owner_id = 0
  /\ dispatched = << >>
  /\ evicted = << >>
  /\ next_update_id = 1
  /\ first_updates = << >>
  /\ redelivered = << >>
  /\ state_file = [owner_id |-> 0, owner_chat_id |-> 0]
  /\ delivered = 0
  /\ last_update = NoOutcome
  /\ first_seen = 0
  /\ chat_threads = << >>
  /\ begun = << >>
  /\ ended = << >>
  /\ run_pc = "loop_test"
  /\ stop_flag = FALSE
  /\ lock_present = TRUE
  /\ run_offset = 0
  /\ saved_offset = 0
  /\ handled_updates = 0
  /\ task_type = << >>
  /\ PENDING = {}
  /\ RUNNING = {}
  /\ terminal = {}
  /\ snapshot = [pending |-> {}, running |-> {}]
  /\ chat_handling = {}
  /\ evolution_enabled = FALSE
  /\ restarts = 0
  /\ failed_step = "none"
  /\ last_reply = "none"
  /\ llm_model = << >>
  /\ llm_selector = << >>
  /\ llm_keys = {}
  /\ llm_result = NotCalled
  /\ oa_verifier = {}
  /\ oa_challenge = {}
  /\ oa_state = {}
  /\ oa_issued = << >>
  /\ oa_requests = << >>
  /\ oa_last = NoExchange
  /\ oa_fresh = 0
  /\ oa_calls = 0
  /\ st_file = [spent_usd |-> 0, tg_offset |-> 0, last_owner_message_at |-> 0, owner_id |-> 0]
  /\ main_st = NoSt
  /\ main_update = "tg_offset"
  /\ spent_total = 0
  /\ st_ops = 0
  /\ ev_q = << >>
  /\ ev_put = 0
  /\ ev_pc = "idle"
  /\ ev_handled = 0
  /\ ev_last = 0
  /\ ev_singles = 0
  /\ ev_burst = FALSE
  /\ it_pc = "loop_test"
  /\ it_batch = << >>
  /\ it_size = 0
  /\ it_log = << >>
  /\ it_call = 0
  /\ it_iters = 0
  /\ it_cause = "none"
  /\ it_errors = << >>
  /\ om_text = << >>
  /\ om_caption = << >>
  /\ om_image = FALSE
  /\ om_out = [reply |-> "none", dispatch_text |-> << "no dispatch" >>, called |-> TRUE]
  /\ tm = TermStart(NoBudget)
  /\ ag = AgentStart
  /\ last_call = NoCall
  /\ code_round = 0

SpecUpdates == InitUpdates /\ [][NextUpdates]_vars

\* a fresh runtime: no owner bound, no update delivered yet
InitChat ==
  /\ messages = PromptMsgs
  /\ incoming = << >>
  /\ injected_total = 0
  /\ round_idx = 0
  /\ pc = "round_start"
  /\ attempt = 0
  /\ backoff = 0
  /\ msg = NoMsg
  /\ accumulated = [prompt_tokens |-> 0, completion_tokens |-> 0, cost |-> 0, rounds |-> 0]
  /\ round_events = << >>
  /\ active_model = ModelProfile("").model
  /\ active_effort = ModelProfile("").effort
  /\ budget = NoBudget
  /\ tool_calls = NoCalls
  /\ can_parallel = FALSE
  /\ exec = << >>
  /\ handler = << >>
  /\ res = << >>
  /\ order = << >>
  /\ closure_calls = 0
  /\ ret = NoRet
  /\ lock_file = NoFile
  /\ sup_pc = [p \in Sups |-> "not_started"]
  /\ existing_pid = [p \in Sups |-> 0]
  /\ lock_fd = [p \in Sups |-> 0]
  /\ git_lock = FALSE
  /\ git_pc = [w \in GitWorkers |-> "idle"]
  /\ git_op = [w \in GitWorkers |-> "repo_write_commit"]
  /\ git_step = [w \in GitWorkers |-> 0]
  /\ git_ret = [w \in GitWorkers |-> "none"]
  /\ git_log = [w \in GitWorkers |-> << >>]
  /\ git_text = [w \in GitWorkers |-> << "f", "i", "x" >>]
  /\ offset = 0
  /\ recent_update_ids = {}
  /\ recent_update_order = << >>
  /\ owner_id = 0
  /\ dispatched = << >>
  /\ evicted = << >>
  /\ next_update_id = 1
  /\ first_updates = << >>
  /\ redelivered = << >>
  /\ state_file = [owner_id |-> 0, owner_chat_id |-> 0]
  /\ delivered = 0
  /\ last_update = NoOutcome
  /\ first_seen = 0
  /\ chat_threads = << >>
  /\ begun = << >>
  /\ ended = << >>
  /\ run_pc = "loop_test"
  /\ stop_flag = FALSE
  /\ lock_present = TRUE
  /\ run_offset = 0
  /\ saved_offset = 0
  /\ handled_updates = 0
  /\ task_type = << >>
  /\ PENDING = {}
  /\ RUNNING = {}
  /\ terminal = {}
  /\ snapshot = [pending |-> {}, running |-> {}]
  /\ chat_handling = {}
  /\ evolution_enabled = FALSE
  /\ restarts = 0
  /\ failed_step = "none"
  /\ last_reply = "none"
  /\ llm_model = << >>
  /\ llm_selector = << >>
  /\ llm_keys = {}
  /\ llm_result = NotCalled
  /\ oa_verifier = {}
  /\ oa_challenge = {}
  /\ oa_state = {}
  /\ oa_issued = << >>
  /\ oa_requests = << >>
  /\ oa_last = NoExchange
  /\ oa_fresh = 0
  /\ oa_calls = 0
  /\ st_file = [spent_usd |-> 0, tg_offset |-> 0, last_owner_message_at |-> 0, owner_id |-> 0]
  /\ main_st = NoSt
  /\ main_update = "tg_offset"
  /\ spent_total = 0
  /\ st_ops = 0
  /\ ev_q = << >>
  /\ ev_put = 0
  /\ ev_pc = "idle"
  /\ ev_handled = 0
  /\ ev_last = 0
  /\ ev_singles = 0
  /\ ev_burst = FALSE
  /\ it_pc = "loop_test"
  /\ it_batch = << >>
  /\ it_size = 0
  /\ it_log = << >>
  /\ it_call = 0
  /\ it_iters = 0
  /\ it_cause = "none"
  /\ it_errors = << >>
  /\ om_text = << >>
  /\ om_caption = << >>
  /\ om_image = FALSE
  /\ om_out = [reply |-> "none", dispatch_text |-> << "no dispatch" >>, called |-> TRUE]
  /\ tm = TermStart(NoBudget)
  /\ ag = AgentStart
  /\ last_call = NoCall
  /\ code_round = 0

SpecChat == InitChat /\ [][NextChat]_vars

\* a supervisor that holds the singleton lock and enters its main loop with
\* an empty queue
InitSup ==
  /\ messages = PromptMsgs
  /\ incoming = << >>
  /\ injected_total = 0
  /\ round_idx = 0
  /\ pc = "round_start"
  /\ attempt = 0
  /\ backoff = 0
  /\ msg = NoMsg
  /\ accumulated = [prompt_tokens |-> 0, completion_tokens |-> 0, cost |-> 0, rounds |-> 0]
  /\ round_events = << >>
  /\ active_model = ModelProfile("").model
  /\ active_effort = ModelProfile("").effort
  /\ budget = NoBudget
  /\ tool_calls = NoCalls
  /\ can_parallel = FALSE
  /\ exec = << >>
  /\ handler = << >>
  /\ res = << >>
  /\ order = << >>
  /\ closure_calls = 0
  /\ ret = NoRet
  /\ lock_file = NoFile
  /\ sup_pc = [p \in Sups |-> "not_started"]
  /\ existing_pid = [p \in Sups |-> 0]
  /\ lock_fd = [p \in Sups |-> 0]
  /\ git_lock = FALSE
  /\ git_pc = [w \in GitWorkers |-> "idle"]
  /\ git_op = [w \in GitWorkers |-> "repo_write_commit"]
  /\ git_step = [w \in GitWorkers |-> 0]
  /\ git_ret = [w \in GitWorkers |-> "none"]
  /\ git_log = [w \in GitWorkers |-> << >>]
  /\ git_text = [w \in GitWorkers |-> << "f", "i", "x" >>]
  /\ offset = 0
  /\ recent_update_ids = {}
  /\ recent_update_order = << >>
  /\ owner_id = 0
  /\ dispatched = << >>
  /\ evicted = << >>
  /\ next_update_id = 1
  /\ first_updates = << >>
  /\ redelivered = << >>
  /\ state_file = [owner_id |-> 0, owner_chat_id |-> 0]
  /\ delivered = 0
  /\ last_update = NoOutcome
  /\ first_seen = 0
  /\ chat_threads = << >>
  /\ begun = << >>
  /\ ended = << >>
  /\ run_pc = "loop_test"
  /\ stop_flag = FALSE
  /\ lock_present = TRUE
  /\ run_offset = 0
  /\ saved_offset = 0
  /\ handled_updates = 0
  /\ task_type = << >>
  /\ PENDING = {}
  /\ RUNNING = {}
  /\ terminal = {}
  /\ snapshot = [pending |-> {}, running |-> {}]
  /\ chat_handling = {}
  /\ evolution_enabled = FALSE
  /\ restarts = 0
  /\ failed_step = "none"
  /\ last_reply = "none"
  /\ llm_model = << >>
  /\ llm_selector = << >>
  /\ llm_keys = {}
  /\ llm_result = NotCalled
  /\ oa_verifier = {}
  /\ oa_challenge = {}
  /\ oa_state = {}
  /\ oa_issued = << >>
  /\ oa_requests = << >>
  /\ oa_last = NoExchange
  /\ oa_fresh = 0
  /\ oa_calls = 0
  /\ st_file = [spent_usd |-> 0, tg_offset |-> 0, last_owner_message_at |-> 0, owner_id |-> 0]
  /\ main_st = NoSt
  /\ main_update = "tg_offset"
  /\ spent_total = 0
  /\ st_ops = 0
  /\ ev_q = << >>
  /\ ev_put = 0
  /\ ev_pc = "idle"
  /\ ev_handled = 0
  /\ ev_last = 0
  /\ ev_singles = 0
  /\ ev_burst = FALSE
  /\ it_pc = "loop_test"
  /\ it_batch = << >>
  /\ it_size = 0
  /\ it_log = << >>
  /\ it_call = 0
  /\ it_iters = 0
  /\ it_cause = "none"
  /\ it_errors = << >>
  /\ om_text = << >>
  /\ om_caption = << >>
  /\ om_image = FALSE
  /\ om_out = [reply |-> "none", dispatch_text |-> << "no dispatch" >>, called |-> TRUE]
  /\ tm = TermStart(NoBudget)
  /\ ag = AgentStart
  /\ last_call = NoCall
  /\ code_round = 0

SpecSup == InitSup /\ [][NextSup]_vars

\* run_llm_loop is entered with the profile of its task type (loop.py 177-180)
InitEffort ==
  /\ messages = PromptMsgs
  /\ incoming = << >>
  /\ injected_total = 0
  /\ round_idx = 0
  /\ pc = "round_start"
  /\ attempt = 0
  /\ backoff = 0
  /\ msg = NoMsg
  /\ accumulated = [prompt_tokens |-> 0, completion_tokens |-> 0, cost |-> 0, rounds |-> 0]
  /\ round_events = << >>
  /\ \E profile_name \in {"default_task", "light", "code_task"} :
        /\ active_model = ModelProfile(profile_name).model
        /\ active_effort = ModelProfile(profile_name).effort
  /\ budget = NoBudget
  /\ tool_calls = NoCalls
  /\ can_parallel = FALSE
  /\ exec = << >>
  /\ handler = << >>
  /\ res = << >>
  /\ order = << >>
  /\ closure_calls = 0
  /\ ret = NoRet
  /\ lock_file = NoFile
  /\ sup_pc = [p \in Sups |-> "not_started"]
  /\ existing_pid = [p \in Sups |-> 0]
  /\ lock_fd = [p \in Sups |-> 0]
  /\ git_lock = FALSE
  /\ git_pc = [w \in GitWorkers |-> "idle"]
  /\ git_op = [w \in GitWorkers |-> "repo_write_commit"]
  /\ git_step = [w \in GitWorkers |-> 0]
  /\ git_ret = [w \in GitWorkers |-> "none"]
  /\ git_log = [w \in GitWorkers |-> << >>]
  /\ git_text = [w \in GitWorkers |-> << "f", "i", "x" >>]
  /\ offset = 0
  /\ recent_update_ids = {}
  /\ recent_update_order = << >>
  /\ owner_id = 0
  /\ dispatched = << >>
  /\ evicted = << >>
  /\ next_update_id = 1
  /\ first_updates = << >>
  /\ redelivered = << >>
  /\ state_file = [owner_id |-> 0, owner_chat_id |-> 0]
  /\ delivered = 0
  /\ last_update = NoOutcome
  /\ first_seen = 0
  /\ chat_threads = << >>
  /\ begun = << >>
  /\ ended = << >>
  /\ run_pc = "loop_test"
  /\ stop_flag = FALSE
  /\ lock_present = TRUE
  /\ run_offset = 0
  /\ saved_offset = 0
  /\ handled_updates = 0
  /\ task_type = << >>
  /\ PENDING = {}
  /\ RUNNING = {}
  /\ terminal = {}
  /\ snapshot = [pending |-> {}, running |-> {}]
  /\ chat_handling = {}
  /\ evolution_enabled = FALSE
  /\ restarts = 0
  /\ failed_step = "none"
  /\ last_reply = "none"
  /\ llm_model = << >>
  /\ llm_selector = << >>
  /\ llm_keys = {}
  /\ llm_result = NotCalled
  /\ oa_verifier = {}
  /\ oa_challenge = {}
  /\ oa_state = {}
  /\ oa_issued = << >>
  /\ oa_requests = << >>
  /\ oa_last = NoExchange
  /\ oa_fresh = 0
  /\ oa_calls = 0
  /\ st_file = [spent_usd |-> 0, tg_offset |-> 0, last_owner_message_at |-> 0, owner_id |-> 0]
  /\ main_st = NoSt
  /\ main_update = "tg_offset"
  /\ spent_total = 0
  /\ st_ops = 0
  /\ ev_q = << >>
  /\ ev_put = 0
  /\ ev_pc = "idle"
  /\ ev_handled = 0
  /\ ev_last = 0
  /\ ev_singles = 0
  /\ ev_burst = FALSE
  /\ it_pc = "loop_test"
  /\ it_batch = << >>
  /\ it_size = 0
  /\ it_log = << >>
  /\ it_call = 0
  /\ it_iters = 0
  /\ it_cause = "none"
  /\ it_errors = << >>
  /\ om_text = << >>
  /\ om_caption = << >>
  /\ om_image = FALSE
  /\ om_out = [reply |-> "none", dispatch_text |-> << "no dispatch" >>, called |-> TRUE]
  /\ tm = TermStart(NoBudget)
  /\ ag = AgentStart
  /\ last_call = NoCall
  /\ code_round = 0

SpecEffort == InitEffort /\ [][NextEffort]_vars

\* a process with its environment set makes its first request
InitResolve ==
  /\ messages = PromptMsgs
  /\ incoming = << >>
  /\ injected_total = 0
  /\ round_idx = 0
  /\ pc = "round_start"
  /\ attempt = 0
  /\ backoff = 0
  /\ msg = NoMsg
  /\ accumulated = [prompt_tokens |-> 0, completion_tokens |-> 0, cost |-> 0, rounds |-> 0]
  /\ round_events = << >>
  /\ active_model = ModelProfile("").model
  /\ active_effort = ModelProfile("").effort
  /\ budget = NoBudget
  /\ tool_calls = NoCalls
  /\ can_parallel = FALSE
  /\ exec = << >>
  /\ handler = << >>
  /\ res = << >>
  /\ order = << >>
  /\ closure_calls = 0
  /\ ret = NoRet
  /\ lock_file = NoFile
  /\ sup_pc = [p \in Sups |-> "not_started"]
  /\ existing_pid = [p \in Sups |-> 0]
  /\ lock_fd = [p \in Sups |-> 0]
  /\ git_lock = FALSE
  /\ git_pc = [w \in GitWorkers |-> "idle"]
  /\ git_op = [w \in GitWorkers |-> "repo_write_commit"]
  /\ git_step = [w \in GitWorkers |-> 0]
  /\ git_ret = [w \in GitWorkers |-> "none"]
  /\ git_log = [w \in GitWorkers |-> << >>]
  /\ git_text = [w \in GitWorkers |-> << "f", "i", "x" >>]
  /\ offset = 0
  /\ recent_update_ids = {}
  /\ recent_update_order = << >>
  /\ owner_id = 0
  /\ dispatched = << >>
  /\ evicted = << >>
  /\ next_update_id = 1
  /\ first_updates = << >>
  /\ redelivered = << >>
  /\ state_file = [owner_id |-> 0, owner_chat_id |-> 0]
  /\ delivered = 0
  /\ last_update = NoOutcome
  /\ first_seen = 0
  /\ chat_threads = << >>
  /\ begun = << >>
  /\ ended = << >>
  /\ run_pc = "loop_test"
  /\ stop_flag = FALSE
  /\ lock_present = TRUE
  /\ run_offset = 0
  /\ saved_offset = 0
  /\ handled_updates = 0
  /\ task_type = << >>
  /\ PENDING = {}
  /\ RUNNING = {}
  /\ terminal = {}
  /\ snapshot = [pending |-> {}, running |-> {}]
  /\ chat_handling = {}
  /\ evolution_enabled = FALSE
  /\ restarts = 0
  /\ failed_step = "none"
  /\ last_reply = "none"
  /\ llm_model \in ModelIds
  /\ llm_selector \in Selectors
  /\ llm_keys \in KeySets
  /\ llm_result = NotCalled
  /\ oa_verifier = {}
  /\ oa_challenge = {}
  /\ oa_state = {}
  /\ oa_issued = << >>
  /\ oa_requests = << >>
  /\ oa_last = NoExchange
  /\ oa_fresh = 0
  /\ oa_calls = 0
  /\ st_file = [spent_usd |-> 0, tg_offset |-> 0, last_owner_message_at |-> 0, owner_id |-> 0]
  /\ main_st = NoSt
  /\ main_update = "tg_offset"
  /\ spent_total = 0
  /\ st_ops = 0
  /\ ev_q = << >>
  /\ ev_put = 0
  /\ ev_pc = "idle"
  /\ ev_handled = 0
  /\ ev_last = 0
  /\ ev_singles = 0
  /\ ev_burst = FALSE
  /\ it_pc = "loop_test"
  /\ it_batch = << >>
  /\ it_size = 0
  /\ it_log = << >>
  /\ it_call = 0
  /\ it_iters = 0
  /\ it_cause = "none"
  /\ it_errors = << >>
  /\ om_text = << >>
  /\ om_caption = << >>
  /\ om_image = FALSE
  /\ om_out = [reply |-> "none", dispatch_text |-> << "no dispatch" >>, called |-> TRUE]
  /\ tm = TermStart(NoBudget)
  /\ ag = AgentStart
  /\ last_call = NoCall
  /\ code_round = 0

SpecResolve == InitResolve /\ [][NextResolve]_vars

\* oauth.py 110-119: a client as __init__ leaves it
InitOAuth ==
  /\ messages = PromptMsgs
  /\ incoming = << >>
  /\ injected_total = 0
  /\ round_idx = 0
  /\ pc = "round_start"
  /\ attempt = 0
  /\ backoff = 0
  /\ msg = NoMsg
  /\ accumulated = [prompt_tokens |-> 0, completion_tokens |-> 0, cost |-> 0, rounds |-> 0]
  /\ round_events = << >>
  /\ active_model = ModelProfile("").model
  /\ active_effort = ModelProfile("").effort
  /\ budget = NoBudget
  /\ tool_calls = NoCalls
  /\ can_parallel = FALSE
  /\ exec = << >>
  /\ handler = << >>
  /\ res = << >>
  /\ order = << >>
  /\ closure_calls = 0
  /\ ret = NoRet
  /\ lock_file = NoFile
  /\ sup_pc = [p \in Sups |-> "not_started"]
  /\ existing_pid = [p \in Sups |-> 0]
  /\ lock_fd = [p \in Sups |-> 0]
  /\ git_lock = FALSE
  /\ git_pc = [w \in GitWorkers |-> "idle"]
  /\ git_op = [w \in GitWorkers |-> "repo_write_commit"]
  /\ git_step = [w \in GitWorkers |-> 0]
  /\ git_ret = [w \in GitWorkers |-> "none"]
  /\ git_log = [w \in GitWorkers |-> << >>]
  /\ git_text = [w \in GitWorkers |-> << "f", "i", "x" >>]
  /\ offset = 0
  /\ recent_update_ids = {}
  /\ recent_update_order = << >>
  /\ owner_id = 0
  /\ dispatched = << >>
  /\ evicted = << >>
  /\ next_update_id = 1
  /\ first_updates = << >>
  /\ redelivered = << >>
  /\ state_file = [owner_id |-> 0, owner_chat_id |-> 0]
  /\ delivered = 0
  /\ last_update = NoOutcome
  /\ first_seen = 0
  /\ chat_threads = << >>
  /\ begun = << >>
  /\ ended = << >>
  /\ run_pc = "loop_test"
  /\ stop_flag = FALSE
  /\ lock_present = TRUE
  /\ run_offset = 0
  /\ saved_offset = 0
  /\ handled_updates = 0
  /\ task_type = << >>
  /\ PENDING = {}
  /\ RUNNING = {}
  /\ terminal = {}
  /\ snapshot = [pending |-> {}, running |-> {}]
  /\ chat_handling = {}
  /\ evolution_enabled = FALSE
  /\ restarts = 0
  /\ failed_step = "none"
  /\ last_reply = "none"
  /\ llm_model = << >>
  /\ llm_selector = << >>
  /\ llm_keys = {}
  /\ llm_result = NotCalled
  /\ oa_verifier = {}
  /\ oa_challenge = {}
  /\ oa_state = {}
  /\ oa_issued = << >>
  /\ oa_requests = << >>
  /\ oa_last = NoExchange
  /\ oa_fresh = 0
  /\ oa_calls = 0
  /\ st_file = [spent_usd |-> 0, tg_offset |-> 0, last_owner_message_at |-> 0, owner_id |-> 0]
  /\ main_st = NoSt
  /\ main_update = "tg_offset"
  /\ spent_total = 0
  /\ st_ops = 0
  /\ ev_q = << >>
  /\ ev_put = 0
  /\ ev_pc = "idle"
  /\ ev_handled = 0
  /\ ev_last = 0
  /\ ev_singles = 0
  /\ ev_burst = FALSE
  /\ it_pc = "loop_test"
  /\ it_batch = << >>
  /\ it_size = 0
  /\ it_log = << >>
  /\ it_call = 0
  /\ it_iters = 0
  /\ it_cause = "none"
  /\ it_errors = << >>
  /\ om_text = << >>
  /\ om_caption = << >>
  /\ om_image = FALSE
  /\ om_out = [reply |-> "none", dispatch_text |-> << "no dispatch" >>, called |-> TRUE]
  /\ tm = TermStart(NoBudget)
  /\ ag = AgentStart
  /\ last_call = NoCall
  /\ code_round = 0

SpecOAuth == InitOAuth /\ [][NextOAuth]_vars

\* main.py 420: state.init on a fresh runtime root
InitState ==
  /\ messages = PromptMsgs
  /\ incoming = << >>
  /\ injected_total = 0
  /\ round_idx = 0
  /\ pc = "round_start"
  /\ attempt = 0
  /\ backoff = 0
  /\ msg = NoMsg
  /\ accumulated = [prompt_tokens |-> 0, completion_tokens |-> 0, cost |-> 0, rounds |-> 0]
  /\ round_events = << >>
  /\ active_model = ModelProfile("").model
  /\ active_effort = ModelProfile("").effort
  /\ budget = NoBudget
  /\ tool_calls = NoCalls
  /\ can_parallel = FALSE
  /\ exec = << >>
  /\ handler = << >>
  /\ res = << >>
  /\ order = << >>
  /\ closure_calls = 0
  /\ ret = NoRet
  /\ lock_file = NoFile
  /\ sup_pc = [p \in Sups |-> "not_started"]
  /\ existing_pid = [p \in Sups |-> 0]
  /\ lock_fd = [p \in Sups |-> 0]
  /\ git_lock = FALSE
  /\ git_pc = [w \in GitWorkers |-> "idle"]
  /\ git_op = [w \in GitWorkers |-> "repo_write_commit"]
  /\ git_step = [w \in GitWorkers |-> 0]
  /\ git_ret = [w \in GitWorkers |-> "none"]
  /\ git_log = [w \in GitWorkers |-> << >>]
  /\ git_text = [w \in GitWorkers |-> << "f", "i", "x" >>]
  /\ offset = 0
  /\ recent_update_ids = {}
  /\ recent_update_order = << >>
  /\ owner_id = 0
  /\ dispatched = << >>
  /\ evicted = << >>
  /\ next_update_id = 1
  /\ first_updates = << >>
  /\ redelivered = << >>
  /\ state_file = [owner_id |-> 0, owner_chat_id |-> 0]
  /\ delivered = 0
  /\ last_update = NoOutcome
  /\ first_seen = 0
  /\ chat_threads = << >>
  /\ begun = << >>
  /\ ended = << >>
  /\ run_pc = "loop_test"
  /\ stop_flag = FALSE
  /\ lock_present = TRUE
  /\ run_offset = 0
  /\ saved_offset = 0
  /\ handled_updates = 0
  /\ task_type = << >>
  /\ PENDING = {}
  /\ RUNNING = {}
  /\ terminal = {}
  /\ snapshot = [pending |-> {}, running |-> {}]
  /\ chat_handling = {}
  /\ evolution_enabled = FALSE
  /\ restarts = 0
  /\ failed_step = "none"
  /\ last_reply = "none"
  /\ llm_model = << >>
  /\ llm_selector = << >>
  /\ llm_keys = {}
  /\ llm_result = NotCalled
  /\ oa_verifier = {}
  /\ oa_challenge = {}
  /\ oa_state = {}
  /\ oa_issued = << >>
  /\ oa_requests = << >>
  /\ oa_last = NoExchange
  /\ oa_fresh = 0
  /\ oa_calls = 0
  /\ st_file = [spent_usd |-> 0, tg_offset |-> 0, last_owner_message_at |-> 0, owner_id |-> 0]
  /\ main_st = NoSt
  /\ main_update = "tg_offset"
  /\ spent_total = 0
  /\ st_ops = 0
  /\ ev_q = << >>
  /\ ev_put = 0
  /\ ev_pc = "idle"
  /\ ev_handled = 0
  /\ ev_last = 0
  /\ ev_singles = 0
  /\ ev_burst = FALSE
  /\ it_pc = "loop_test"
  /\ it_batch = << >>
  /\ it_size = 0
  /\ it_log = << >>
  /\ it_call = 0
  /\ it_iters = 0
  /\ it_cause = "none"
  /\ it_errors = << >>
  /\ om_text = << >>
  /\ om_caption = << >>
  /\ om_image = FALSE
  /\ om_out = [reply |-> "none", dispatch_text |-> << "no dispatch" >>, called |-> TRUE]
  /\ tm = TermStart(NoBudget)
  /\ ag = AgentStart
  /\ last_call = NoCall
  /\ code_round = 0

SpecState == InitState /\ [][NextState]_vars

\* run_llm_loop is called for a long task, with or without a budget
InitBudget ==
  /\ messages = PromptMsgs
  /\ incoming = << >>
  /\ injected_total = 0
  /\ round_idx = 0
  /\ pc = "round_start"
  /\ attempt = 0
  /\ backoff = 0
  /\ msg = NoMsg
  /\ accumulated = [prompt_tokens |-> 0, completion_tokens |-> 0, cost |-> 0, rounds |-> 0]
  /\ round_events = << >>
  /\ active_model = ModelProfile("").model
  /\ active_effort = ModelProfile("").effort
  /\ budget \in LongBudgets
  /\ tool_calls = NoCalls
  /\ can_parallel = FALSE
  /\ exec = << >>
  /\ handler = << >>
  /\ res = << >>
  /\ order = << >>
  /\ closure_calls = 0
  /\ ret = NoRet
  /\ lock_file = NoFile
  /\ sup_pc = [p \in Sups |-> "not_started"]
  /\ existing_pid = [p \in Sups |-> 0]
  /\ lock_fd = [p \in Sups |-> 0]
  /\ git_lock = FALSE
  /\ git_pc = [w \in GitWorkers |-> "idle"]
  /\ git_op = [w \in GitWorkers |-> "repo_write_commit"]
  /\ git_step = [w \in GitWorkers |-> 0]
  /\ git_ret = [w \in GitWorkers |-> "none"]
  /\ git_log = [w \in GitWorkers |-> << >>]
  /\ git_text = [w \in GitWorkers |-> << "f", "i", "x" >>]
  /\ offset = 0
  /\ recent_update_ids = {}
  /\ recent_update_order = << >>
  /\ owner_id = 0
  /\ dispatched = << >>
  /\ evicted = << >>
  /\ next_update_id = 1
  /\ first_updates = << >>
  /\ redelivered = << >>
  /\ state_file = [owner_id |-> 0, owner_chat_id |-> 0]
  /\ delivered = 0
  /\ last_update = NoOutcome
  /\ first_seen = 0
  /\ chat_threads = << >>
  /\ begun = << >>
  /\ ended = << >>
  /\ run_pc = "loop_test"
  /\ stop_flag = FALSE
  /\ lock_present = TRUE
  /\ run_offset = 0
  /\ saved_offset = 0
  /\ handled_updates = 0
  /\ task_type = << >>
  /\ PENDING = {}
  /\ RUNNING = {}
  /\ terminal = {}
  /\ snapshot = [pending |-> {}, running |-> {}]
  /\ chat_handling = {}
  /\ evolution_enabled = FALSE
  /\ restarts = 0
  /\ failed_step = "none"
  /\ last_reply = "none"
  /\ llm_model = << >>
  /\ llm_selector = << >>
  /\ llm_keys = {}
  /\ llm_result = NotCalled
  /\ oa_verifier = {}
  /\ oa_challenge = {}
  /\ oa_state = {}
  /\ oa_issued = << >>
  /\ oa_requests = << >>
  /\ oa_last = NoExchange
  /\ oa_fresh = 0
  /\ oa_calls = 0
  /\ st_file = [spent_usd |-> 0, tg_offset |-> 0, last_owner_message_at |-> 0, owner_id |-> 0]
  /\ main_st = NoSt
  /\ main_update = "tg_offset"
  /\ spent_total = 0
  /\ st_ops = 0
  /\ ev_q = << >>
  /\ ev_put = 0
  /\ ev_pc = "idle"
  /\ ev_handled = 0
  /\ ev_last = 0
  /\ ev_singles = 0
  /\ ev_burst = FALSE
  /\ it_pc = "loop_test"
  /\ it_batch = << >>
  /\ it_size = 0
  /\ it_log = << >>
  /\ it_call = 0
  /\ it_iters = 0
  /\ it_cause = "none"
  /\ it_errors = << >>
  /\ om_text = << >>
  /\ om_caption = << >>
  /\ om_image = FALSE
  /\ om_out = [reply |-> "none", dispatch_text |-> << "no dispatch" >>, called |-> TRUE]
  /\ tm = TermStart(NoBudget)
  /\ ag = AgentStart
  /\ last_call = NoCall
  /\ code_round = 0

SpecBudget == InitBudget /\ [][NextBudget]_vars

\* run_llm_loop is called for a long task without a budget
InitInject ==
  /\ messages = PromptMsgs
  /\ incoming = << >>
  /\ injected_total = 0
  /\ round_idx = 0
  /\ pc = "round_start"
  /\ attempt = 0
  /\ backoff = 0
  /\ msg = NoMsg
  /\ accumulated = [prompt_tokens |-> 0, completion_tokens |-> 0, cost |-> 0, rounds |-> 0]
  /\ round_events = << >>
  /\ active_model = ModelProfile("").model
  /\ active_effort = ModelProfile("").effort
  /\ budget = NoBudget
  /\ tool_calls = NoCalls
  /\ can_parallel = FALSE
  /\ exec = << >>
  /\ handler = << >>
  /\ res = << >>
  /\ order = << >>
  /\ closure_calls = 0
  /\ ret = NoRet
  /\ lock_file = NoFile
  /\ sup_pc = [p \in Sups |-> "not_started"]
  /\ existing_pid = [p \in Sups |-> 0]
  /\ lock_fd = [p \in Sups |-> 0]
  /\ git_lock = FALSE
  /\ git_pc = [w \in GitWorkers |-> "idle"]
  /\ git_op = [w \in GitWorkers |-> "repo_write_commit"]
  /\ git_step = [w \in GitWorkers |-> 0]
  /\ git_ret = [w \in GitWorkers |-> "none"]
  /\ git_log = [w \in GitWorkers |-> << >>]
  /\ git_text = [w \in GitWorkers |-> << "f", "i", "x" >>]
  /\ offset = 0
  /\ recent_update_ids = {}
  /\ recent_update_order = << >>
  /\ owner_id = 0
  /\ dispatched = << >>
  /\ evicted = << >>
  /\ next_update_id = 1
  /\ first_updates = << >>
  /\ redelivered = << >>
  /\ state_file = [owner_id |-> 0, owner_chat_id |-> 0]
  /\ delivered = 0
  /\ last_update = NoOutcome
  /\ first_seen = 0
  /\ chat_threads = << >>
  /\ begun = << >>
  /\ ended = << >>
  /\ run_pc = "loop_test"
  /\ stop_flag = FALSE
  /\ lock_present = TRUE
  /\ run_offset = 0
  /\ saved_offset = 0
  /\ handled_updates = 0
  /\ task_type = << >>
  /\ PENDING = {}
  /\ RUNNING = {}
  /\ terminal = {}
  /\ snapshot = [pending |-> {}, running |-> {}]
  /\ chat_handling = {}
  /\ evolution_enabled = FALSE
  /\ restarts = 0
  /\ failed_step = "none"
  /\ last_reply = "none"
  /\ llm_model = << >>
  /\ llm_selector = << >>
  /\ llm_keys = {}
  /\ llm_result = NotCalled
  /\ oa_verifier = {}
  /\ oa_challenge = {}
  /\ oa_state = {}
  /\ oa_issued = << >>
  /\ oa_requests = << >>
  /\ oa_last = NoExchange
  /\ oa_fresh = 0
  /\ oa_calls = 0
  /\ st_file = [spent_usd |-> 0, tg_offset |-> 0, last_owner_message_at |-> 0, owner_id |-> 0]
  /\ main_st = NoSt
  /\ main_update = "tg_offset"
  /\ spent_total = 0
  /\ st_ops = 0
  /\ ev_q = << >>
  /\ ev_put = 0
  /\ ev_pc = "idle"
  /\ ev_handled = 0
  /\ ev_last = 0
  /\ ev_singles = 0
  /\ ev_burst = FALSE
  /\ it_pc = "loop_test"
  /\ it_batch = << >>
  /\ it_size = 0
  /\ it_log = << >>
  /\ it_call = 0
  /\ it_iters = 0
  /\ it_cause = "none"
  /\ it_errors = << >>
  /\ om_text = << >>
  /\ om_caption = << >>
  /\ om_image = FALSE
  /\ om_out = [reply |-> "none", dispatch_text |-> << "no dispatch" >>, called |-> TRUE]
  /\ tm = TermStart(NoBudget)
  /\ ag = AgentStart
  /\ last_call = NoCall
  /\ code_round = 0

SpecInject == InitInject /\ [][NextInject]_vars

\* the main loop with an empty event queue
InitEvents ==
  /\ messages = PromptMsgs
  /\ incoming = << >>
  /\ injected_total = 0
  /\ round_idx = 0
  /\ pc = "round_start"
  /\ attempt = 0
  /\ backoff = 0
  /\ msg = NoMsg
  /\ accumulated = [prompt_tokens |-> 0, completion_tokens |-> 0, cost |-> 0, rounds |-> 0]
  /\ round_events = << >>
  /\ active_model = ModelProfile("").model
  /\ active_effort = ModelProfile("").effort
  /\ budget = NoBudget
  /\ tool_calls = NoCalls
  /\ can_parallel = FALSE
  /\ exec = << >>
  /\ handler = << >>
  /\ res = << >>
  /\ order = << >>
  /\ closure_calls = 0
  /\ ret = NoRet
  /\ lock_file = NoFile
  /\ sup_pc = [p \in Sups |-> "not_started"]
  /\ existing_pid = [p \in Sups |-> 0]
  /\ lock_fd = [p \in Sups |-> 0]
  /\ git_lock = FALSE
  /\ git_pc = [w \in GitWorkers |-> "idle"]
  /\ git_op = [w \in GitWorkers |-> "repo_write_commit"]
  /\ git_step = [w \in GitWorkers |-> 0]
  /\ git_ret = [w \in GitWorkers |-> "none"]
  /\ git_log = [w \in GitWorkers |-> << >>]
  /\ git_text = [w \in GitWorkers |-> << "f", "i", "x" >>]
  /\ offset = 0
  /\ recent_update_ids = {}
  /\ recent_update_order = << >>
  /\ owner_id = 0
  /\ dispatched = << >>
  /\ evicted = << >>
  /\ next_update_id = 1
  /\ first_updates = << >>
  /\ redelivered = << >>
  /\ state_file = [owner_id |-> 0, owner_chat_id |-> 0]
  /\ delivered = 0
  /\ last_update = NoOutcome
  /\ first_seen = 0
  /\ chat_threads = << >>
  /\ begun = << >>
  /\ ended = << >>
  /\ run_pc = "loop_test"
  /\ stop_flag = FALSE
  /\ lock_present = TRUE
  /\ run_offset = 0
  /\ saved_offset = 0
  /\ handled_updates = 0
  /\ task_type = << >>
  /\ PENDING = {}
  /\ RUNNING = {}
  /\ terminal = {}
  /\ snapshot = [pending |-> {}, running |-> {}]
  /\ chat_handling = {}
  /\ evolution_enabled = FALSE
  /\ restarts = 0
  /\ failed_step = "none"
  /\ last_reply = "none"
  /\ llm_model = << >>
  /\ llm_selector = << >>
  /\ llm_keys = {}
  /\ llm_result = NotCalled
  /\ oa_verifier = {}
  /\ oa_challenge = {}
  /\ oa_state = {}
  /\ oa_issued = << >>
  /\ oa_requests = << >>
  /\ oa_last = NoExchange
  /\ oa_fresh = 0
  /\ oa_calls = 0
  /\ st_file = [spent_usd |-> 0, tg_offset |-> 0, last_owner_message_at |-> 0, owner_id |-> 0]
  /\ main_st = NoSt
  /\ main_update = "tg_offset"
  /\ spent_total = 0
  /\ st_ops = 0
  /\ ev_q = << >>
  /\ ev_put = 0
  /\ ev_pc = "idle"
  /\ ev_handled = 0
  /\ ev_last = 0
  /\ ev_singles = 0
  /\ ev_burst = FALSE
  /\ it_pc = "loop_test"
  /\ it_batch = << >>
  /\ it_size = 0
  /\ it_log = << >>
  /\ it_call = 0
  /\ it_iters = 0
  /\ it_cause = "none"
  /\ it_errors = << >>
  /\ om_text = << >>
  /\ om_caption = << >>
  /\ om_image = FALSE
  /\ om_out = [reply |-> "none", dispatch_text |-> << "no dispatch" >>, called |-> TRUE]
  /\ tm = TermStart(NoBudget)
  /\ ag = AgentStart
  /\ last_call = NoCall
  /\ code_round = 0

SpecEvents == InitEvents /\ [][NextEvents]_vars

\* the main loop before its first iteration
InitIter ==
  /\ messages = PromptMsgs
  /\ incoming = << >>
  /\ injected_total = 0
  /\ round_idx = 0
  /\ pc = "round_start"
  /\ attempt = 0
  /\ backoff = 0
  /\ msg = NoMsg
  /\ accumulated = [prompt_tokens |-> 0, completion_tokens |-> 0, cost |-> 0, rounds |-> 0]
  /\ round_events = << >>
  /\ active_model = ModelProfile("").model
  /\ active_effort = ModelProfile("").effort
  /\ budget = NoBudget
  /\ tool_calls = NoCalls
  /\ can_parallel = FALSE
  /\ exec = << >>
  /\ handler = << >>
  /\ res = << >>
  /\ order = << >>
  /\ closure_calls = 0
  /\ ret = NoRet
  /\ lock_file = NoFile
  /\ sup_pc = [p \in Sups |-> "not_started"]
  /\ existing_pid = [p \in Sups |-> 0]
  /\ lock_fd = [p \in Sups |-> 0]
  /\ git_lock = FALSE
  /\ git_pc = [w \in GitWorkers |-> "idle"]
  /\ git_op = [w \in GitWorkers |-> "repo_write_commit"]
  /\ git_step = [w \in GitWorkers |-> 0]
  /\ git_ret = [w \in GitWorkers |-> "none"]
  /\ git_log = [w \in GitWorkers |-> << >>]
  /\ git_text = [w \in GitWorkers |-> << "f", "i", "x" >>]
  /\ offset = 0
  /\ recent_update_ids = {}
  /\ recent_update_order = << >>
  /\ owner_id = 0
  /\ dispatched = << >>
  /\ evicted = << >>
  /\ next_update_id = 1
  /\ first_updates = << >>
  /\ redelivered = << >>
  /\ state_file = [owner_id |-> 0, owner_chat_id |-> 0]
  /\ delivered = 0
  /\ last_update = NoOutcome
  /\ first_seen = 0
  /\ chat_threads = << >>
  /\ begun = << >>
  /\ ended = << >>
  /\ run_pc = "loop_test"
  /\ stop_flag = FALSE
  /\ lock_present = TRUE
  /\ run_offset = 0
  /\ saved_offset = 0
  /\ handled_updates = 0
  /\ task_type = << >>
  /\ PENDING = {}
  /\ RUNNING = {}
  /\ terminal = {}
  /\ snapshot = [pending |-> {}, running |-> {}]
  /\ chat_handling = {}
  /\ evolution_enabled = FALSE
  /\ restarts = 0
  /\ failed_step = "none"
  /\ last_reply = "none"
  /\ llm_model = << >>
  /\ llm_selector = << >>
  /\ llm_keys = {}
  /\ llm_result = NotCalled
  /\ oa_verifier = {}
  /\ oa_challenge = {}
  /\ oa_state = {}
  /\ oa_issued = << >>
  /\ oa_requests = << >>
  /\ oa_last = NoExchange
  /\ oa_fresh = 0
  /\ oa_calls = 0
  /\ st_file = [spent_usd |-> 0, tg_offset |-> 0, last_owner_message_at |-> 0, owner_id |-> 0]
  /\ main_st = NoSt
  /\ main_update = "tg_offset"
  /\ spent_total = 0
  /\ st_ops = 0
  /\ ev_q = << >>
  /\ ev_put = 0
  /\ ev_pc = "idle"
  /\ ev_handled = 0
  /\ ev_last = 0
  /\ ev_singles = 0
  /\ ev_burst = FALSE
  /\ it_pc = "loop_test"
  /\ it_batch = << >>
  /\ it_size = 0
  /\ it_log = << >>
  /\ it_call = 0
  /\ it_iters = 0
  /\ it_cause = "none"
  /\ it_errors = << >>
  /\ om_text = << >>
  /\ om_caption = << >>
  /\ om_image = FALSE
  /\ om_out = [reply |-> "none", dispatch_text |-> << "no dispatch" >>, called |-> TRUE]
  /\ tm = TermStart(NoBudget)
  /\ ag = AgentStart
  /\ last_call = NoCall
  /\ code_round = 0

SpecIter == InitIter /\ [][NextIter]_vars

\* no owner message yet (an update without text, caption or image)
InitOwner ==
  /\ messages = PromptMsgs
  /\ incoming = << >>
  /\ injected_total = 0
  /\ round_idx = 0
  /\ pc = "round_start"
  /\ attempt = 0
  /\ backoff = 0
  /\ msg = NoMsg
  /\ accumulated = [prompt_tokens |-> 0, completion_tokens |-> 0, cost |-> 0, rounds |-> 0]
  /\ round_events = << >>
  /\ active_model = ModelProfile("").model
  /\ active_effort = ModelProfile("").effort
  /\ budget = NoBudget
  /\ tool_calls = NoCalls
  /\ can_parallel = FALSE
  /\ exec = << >>
  /\ handler = << >>
  /\ res = << >>
  /\ order = << >>
  /\ closure_calls = 0
  /\ ret = NoRet
  /\ lock_file = NoFile
  /\ sup_pc = [p \in Sups |-> "not_started"]
  /\ existing_pid = [p \in Sups |-> 0]
  /\ lock_fd = [p \in Sups |-> 0]
  /\ git_lock = FALSE
  /\ git_pc = [w \in GitWorkers |-> "idle"]
  /\ git_op = [w \in GitWorkers |-> "repo_write_commit"]
  /\ git_step = [w \in GitWorkers |-> 0]
  /\ git_ret = [w \in GitWorkers |-> "none"]
  /\ git_log = [w \in GitWorkers |-> << >>]
  /\ git_text = [w \in GitWorkers |-> << "f", "i", "x" >>]
  /\ offset = 0
  /\ recent_update_ids = {}
  /\ recent_update_order = << >>
  /\ owner_id = 0
  /\ dispatched = << >>
  /\ evicted = << >>
  /\ next_update_id = 1
  /\ first_updates = << >>
  /\ redelivered = << >>
  /\ state_file = [owner_id |-> 0, owner_chat_id |-> 0]
  /\ delivered = 0
  /\ last_update = NoOutcome
  /\ first_seen = 0
  /\ chat_threads = << >>
  /\ begun = << >>
  /\ ended = << >>
  /\ run_pc = "loop_test"
  /\ stop_flag = FALSE
  /\ lock_present = TRUE
  /\ run_offset = 0
  /\ saved_offset = 0
  /\ handled_updates = 0
  /\ task_type = << >>
  /\ PENDING = {}
  /\ RUNNING = {}
  /\ terminal = {}
  /\ snapshot = [pending |-> {}, running |-> {}]
  /\ chat_handling = {}
  /\ evolution_enabled = FALSE
  /\ restarts = 0
  /\ failed_step = "none"
  /\ last_reply = "none"
  /\ llm_model = << >>
  /\ llm_selector = << >>
  /\ llm_keys = {}
  /\ llm_result = NotCalled
  /\ oa_verifier = {}
  /\ oa_challenge = {}
  /\ oa_state = {}
  /\ oa_issued = << >>
  /\ oa_requests = << >>
  /\ oa_last = NoExchange
  /\ oa_fresh = 0
  /\ oa_calls = 0
  /\ st_file = [spent_usd |-> 0, tg_offset |-> 0, last_owner_message_at |-> 0, owner_id |-> 0]
  /\ main_st = NoSt
  /\ main_update = "tg_offset"
  /\ spent_total = 0
  /\ st_ops = 0
  /\ ev_q = << >>
  /\ ev_put = 0
  /\ ev_pc = "idle"
  /\ ev_handled = 0
  /\ ev_last = 0
  /\ ev_singles = 0
  /\ ev_burst = FALSE
  /\ it_pc = "loop_test"
  /\ it_batch = << >>
  /\ it_size = 0
  /\ it_log = << >>
  /\ it_call = 0
  /\ it_iters = 0
  /\ it_cause = "none"
  /\ it_errors = << >>
  /\ om_text = << >>
  /\ om_caption = << >>
  /\ om_image = FALSE
  /\ om_out = [reply |-> "none", dispatch_text |-> << "no dispatch" >>, called |-> TRUE]
  /\ tm = TermStart(NoBudget)
  /\ ag = AgentStart
  /\ last_call = NoCall
  /\ code_round = 0

SpecOwner == InitOwner /\ [][NextOwner]_vars

\* supervisors start one at a time on a runtime root that may hold a lock file
InitLockAlone ==
  /\ messages = PromptMsgs
  /\ incoming = << >>
  /\ injected_total = 0
  /\ round_idx = 0
  /\ pc = "round_start"
  /\ attempt = 0
  /\ backoff = 0
  /\ msg = NoMsg
  /\ accumulated = [prompt_tokens |-> 0, completion_tokens |-> 0, cost |-> 0, rounds |-> 0]
  /\ round_events = << >>
  /\ active_model = ModelProfile("").model
  /\ active_effort = ModelProfile("").effort
  /\ budget = NoBudget
  /\ tool_calls = NoCalls
  /\ can_parallel = FALSE
  /\ exec = << >>
  /\ handler = << >>
  /\ res = << >>
  /\ order = << >>
  /\ closure_calls = 0
  /\ ret = NoRet
  /\ lock_file \in LeftOverFiles
  /\ sup_pc = [p \in Sups |-> "not_started"]
  /\ existing_pid = [p \in Sups |-> 0]
  /\ lock_fd = [p \in Sups |-> 0]
  /\ git_lock = FALSE
  /\ git_pc = [w \in GitWorkers |-> "idle"]
  /\ git_op = [w \in GitWorkers |-> "repo_write_commit"]
  /\ git_step = [w \in GitWorkers |-> 0]
  /\ git_ret = [w \in GitWorkers |-> "none"]
  /\ git_log = [w \in GitWorkers |-> << >>]
  /\ git_text = [w \in GitWorkers |-> << "f", "i", "x" >>]
  /\ offset = 0
  /\ recent_update_ids = {}
  /\ recent_update_order = << >>
  /\ owner_id = 0
  /\ dispatched = << >>
  /\ evicted = << >>
  /\ next_update_id = 1
  /\ first_updates = << >>
  /\ redelivered = << >>
  /\ state_file = [owner_id |-> 0, owner_chat_id |-> 0]
  /\ delivered = 0
  /\ last_update = NoOutcome
  /\ first_seen = 0
  /\ chat_threads = << >>
  /\ begun = << >>
  /\ ended = << >>
  /\ run_pc = "loop_test"
  /\ stop_flag = FALSE
  /\ lock_present = TRUE
  /\ run_offset = 0
  /\ saved_offset = 0
  /\ handled_updates = 0
  /\ task_type = << >>
  /\ PENDING = {}
  /\ RUNNING = {}
  /\ terminal = {}
  /\ snapshot = [pending |-> {}, running |-> {}]
  /\ chat_handling = {}
  /\ evolution_enabled = FALSE
  /\ restarts = 0
  /\ failed_step = "none"
  /\ last_reply = "none"
  /\ llm_model = << >>
  /\ llm_selector = << >>
  /\ llm_keys = {}
  /\ llm_result = NotCalled
  /\ oa_verifier = {}
  /\ oa_challenge = {}
  /\ oa_state = {}
  /\ oa_issued = << >>
  /\ oa_requests = << >>
  /\ oa_last = NoExchange
  /\ oa_fresh = 0
  /\ oa_calls = 0
  /\ st_file = [spent_usd |-> 0, tg_offset |-> 0, last_owner_message_at |-> 0, owner_id |-> 0]
  /\ main_st = NoSt
  /\ main_update = "tg_offset"
  /\ spent_total = 0
  /\ st_ops = 0
  /\ ev_q = << >>
  /\ ev_put = 0
  /\ ev_pc = "idle"
  /\ ev_handled = 0
  /\ ev_last = 0
  /\ ev_singles = 0
  /\ ev_burst = FALSE
  /\ it_pc = "loop_test"
  /\ it_batch = << >>
  /\ it_size = 0
  /\ it_log = << >>
  /\ it_call = 0
  /\ it_iters = 0
  /\ it_cause = "none"
  /\ it_errors = << >>
  /\ om_text = << >>
  /\ om_caption = << >>
  /\ om_image = FALSE
  /\ om_out = [reply |-> "none", dispatch_text |-> << "no dispatch" >>, called |-> TRUE]
  /\ tm = TermStart(NoBudget)
  /\ ag = AgentStart
  /\ last_call = NoCall
  /\ code_round = 0

SpecLockAlone == InitLockAlone /\ [][NextLockAlone]_vars

\* run_llm_loop is called with or without a budget
InitTerm ==
  /\ messages = PromptMsgs
  /\ incoming = << >>
  /\ injected_total = 0
  /\ round_idx = 0
  /\ pc = "round_start"
  /\ attempt = 0
  /\ backoff = 0
  /\ msg = NoMsg
  /\ accumulated = [prompt_tokens |-> 0, completion_tokens |-> 0, cost |-> 0, rounds |-> 0]
  /\ round_events = << >>
  /\ active_model = ModelProfile("").model
  /\ active_effort = ModelProfile("").effort
  /\ budget = NoBudget
  /\ tool_calls = NoCalls
  /\ can_parallel = FALSE
  /\ exec = << >>
  /\ handler = << >>
  /\ res = << >>
  /\ order = << >>
  /\ closure_calls = 0
  /\ ret = NoRet
  /\ lock_file = NoFile
  /\ sup_pc = [p \in Sups |-> "not_started"]
  /\ existing_pid = [p \in Sups |-> 0]
  /\ lock_fd = [p \in Sups |-> 0]
  /\ git_lock = FALSE
  /\ git_pc = [w \in GitWorkers |-> "idle"]
  /\ git_op = [w \in GitWorkers |-> "repo_write_commit"]
  /\ git_step = [w \in GitWorkers |-> 0]
  /\ git_ret = [w \in GitWorkers |-> "none"]
  /\ git_log = [w \in GitWorkers |-> << >>]
  /\ git_text = [w \in GitWorkers |-> << "f", "i", "x" >>]
  /\ offset = 0
  /\ recent_update_ids = {}
  /\ recent_update_order = << >>
  /\ owner_id = 0
  /\ dispatched = << >>
  /\ evicted = << >>
  /\ next_update_id = 1
  /\ first_updates = << >>
  /\ redelivered = << >>
  /\ state_file = [owner_id |-> 0, owner_chat_id |-> 0]
  /\ delivered = 0
  /\ last_update = NoOutcome
  /\ first_seen = 0
  /\ chat_threads = << >>
  /\ begun = << >>
  /\ ended = << >>
  /\ run_pc = "loop_test"
  /\ stop_flag = FALSE
  /\ lock_present = TRUE
  /\ run_offset = 0
  /\ saved_offset = 0
  /\ handled_updates = 0
  /\ task_type = << >>
  /\ PENDING = {}
  /\ RUNNING = {}
  /\ terminal = {}
  /\ snapshot = [pending |-> {}, running |-> {}]
  /\ chat_handling = {}
  /\ evolution_enabled = FALSE
  /\ restarts = 0
  /\ failed_step = "none"
  /\ last_reply = "none"
  /\ llm_model = << >>
  /\ llm_selector = << >>
  /\ llm_keys = {}
  /\ llm_result = NotCalled
  /\ oa_verifier = {}
  /\ oa_challenge = {}
  /\ oa_state = {}
  /\ oa_issued = << >>
  /\ oa_requests = << >>
  /\ oa_last = NoExchange
  /\ oa_fresh = 0
  /\ oa_calls = 0
  /\ st_file = [spent_usd |-> 0, tg_offset |-> 0, last_owner_message_at |-> 0, owner_id |-> 0]
  /\ main_st = NoSt
  /\ main_update = "tg_offset"
  /\ spent_total = 0
  /\ st_ops = 0
  /\ ev_q = << >>
  /\ ev_put = 0
  /\ ev_pc = "idle"
  /\ ev_handled = 0
  /\ ev_last = 0
  /\ ev_singles = 0
  /\ ev_burst = FALSE
  /\ it_pc = "loop_test"
  /\ it_batch = << >>
  /\ it_size = 0
  /\ it_log = << >>
  /\ it_call = 0
  /\ it_iters = 0
  /\ it_cause = "none"
  /\ it_errors = << >>
  /\ om_text = << >>
  /\ om_caption = << >>
  /\ om_image = FALSE
  /\ om_out = [reply |-> "none", dispatch_text |-> << "no dispatch" >>, called |-> TRUE]
  /\ tm \in { TermStart(b) : b \in TermBudgets }
  /\ ag = AgentStart
  /\ last_call = NoCall
  /\ code_round = 0

SpecTerm == InitTerm /\ [][NextTerm]_vars

\* handle_task has built the conversation and calls _llm_with_tools
InitAgent ==
  /\ messages = PromptMsgs
  /\ incoming = << >>
  /\ injected_total = 0
  /\ round_idx = 0
  /\ pc = "round_start"
  /\ attempt = 0
  /\ backoff = 0
  /\ msg = NoMsg
  /\ accumulated = [prompt_tokens |-> 0, completion_tokens |-> 0, cost |-> 0, rounds |-> 0]
  /\ round_events = << >>
  /\ active_model = ModelProfile("").model
  /\ active_effort = ModelProfile("").effort
  /\ budget = NoBudget
  /\ tool_calls = NoCalls
  /\ can_parallel = FALSE
  /\ exec = << >>
  /\ handler = << >>
  /\ res = << >>
  /\ order = << >>
  /\ closure_calls = 0
  /\ ret = NoRet
  /\ lock_file = NoFile
  /\ sup_pc = [p \in Sups |-> "not_started"]
  /\ existing_pid = [p \in Sups |-> 0]
  /\ lock_fd = [p \in Sups |-> 0]
  /\ git_lock = FALSE
  /\ git_pc = [w \in GitWorkers |-> "idle"]
  /\ git_op = [w \in GitWorkers |-> "repo_write_commit"]
  /\ git_step = [w \in GitWorkers |-> 0]
  /\ git_ret = [w \in GitWorkers |-> "none"]
  /\ git_log = [w \in GitWorkers |-> << >>]
  /\ git_text = [w \in GitWorkers |-> << "f", "i", "x" >>]
  /\ offset = 0
  /\ recent_update_ids = {}
  /\ recent_update_order = << >>
  /\ owner_id = 0
  /\ dispatched = << >>
  /\ evicted = << >>
  /\ next_update_id = 1
  /\ first_updates = << >>
  /\ redelivered = << >>
  /\ state_file = [owner_id |-> 0, owner_chat_id |-> 0]
  /\ delivered = 0
  /\ last_update = NoOutcome
  /\ first_seen = 0
  /\ chat_threads = << >>
  /\ begun = << >>
  /\ ended = << >>
  /\ run_pc = "loop_test"
  /\ stop_flag = FALSE
  /\ lock_present = TRUE
  /\ run_offset = 0
  /\ saved_offset = 0
  /\ handled_updates = 0
  /\ task_type = << >>
  /\ PENDING = {}
  /\ RUNNING = {}
  /\ terminal = {}
  /\ snapshot = [pending |-> {}, running |-> {}]
  /\ chat_handling = {}
  /\ evolution_enabled = FALSE
  /\ restarts = 0
  /\ failed_step = "none"
  /\ last_reply = "none"
  /\ llm_model = << >>
  /\ llm_selector = << >>
  /\ llm_keys = {}
  /\ llm_result = NotCalled
  /\ oa_verifier = {}
  /\ oa_challenge = {}
  /\ oa_state = {}
  /\ oa_issued = << >>
  /\ oa_requests = << >>
  /\ oa_last = NoExchange
  /\ oa_fresh = 0
  /\ oa_calls = 0
  /\ st_file = [spent_usd |-> 0, tg_offset |-> 0, last_owner_message_at |-> 0, owner_id |-> 0]
  /\ main_st = NoSt
  /\ main_update = "tg_offset"
  /\ spent_total = 0
  /\ st_ops = 0
  /\ ev_q = << >>
  /\ ev_put = 0
  /\ ev_pc = "idle"
  /\ ev_handled = 0
  /\ ev_last = 0
  /\ ev_singles = 0
  /\ ev_burst = FALSE
  /\ it_pc = "loop_test"
  /\ it_batch = << >>
  /\ it_size = 0
  /\ it_log = << >>
  /\ it_call = 0
  /\ it_iters = 0
  /\ it_cause = "none"
  /\ it_errors = << >>
  /\ om_text = << >>
  /\ om_caption = << >>
  /\ om_image = FALSE
  /\ om_out = [reply |-> "none", dispatch_text |-> << "no dispatch" >>, called |-> TRUE]
  /\ tm = TermStart(NoBudget)
  /\ ag = AgentStart
  /\ last_call = NoCall
  /\ code_round = 0

SpecAgent == InitAgent /\ [][NextAgent]_vars

\* The loop thread runs on, and every call to the LLM and to a tool returns
\* or raises
FairSpecTerm == InitTerm /\ [][NextTerm]_vars /\ WF_vars(NextTerm)

----------------------------------------------------------------------------
(* Properties *)

\* C1: once the deadline of a tool call has passed, _execute_with_timeout
\* returns its TOOL_TIMEOUT result to the loop whether or not the handler has
\* finished: the loop does not wait for the handler.
C1_TimeoutReturnsControl ==
  \A i \in DOMAIN exec : exec[i] = "shutdown_wait" => ENABLED ExecShutdown(i)

\* C1 fails: the TOOL_TIMEOUT result of the only call of a round is built,
\* its handler is still running, and the loop thread can take no step
C1_LoopWaitsForHandler ==
  /\ pc = "tools"
  /\ NCalls = 1
  /\ exec[1] = "shutdown_wait"
  /\ handler[1] = "running"
  /\ res[1].is_error
  /\ ~ ENABLED LoopStep

\* the tool messages of the assistant message at position i follow it, one per
\* call, with the call's id, in emission order, and no further tool message
PairedAt(msgs, i) ==
  LET calls == msgs[i].calls
  IN /\ i + Len(calls) <= Len(msgs)
     /\ \A k \in 1..Len(calls) :
           /\ msgs[i + k].role = "tool"
           /\ msgs[i + k].id = calls[k].id
     /\ i + Len(calls) < Len(msgs) => msgs[i + Len(calls) + 1].role # "tool"

C3_CallOrder ==
  (can_parallel /\ pc \in {"round_start", "closure_call"}) =>
    LET rounds == ToolRounds(messages)
        last == CHOOSE i \in rounds : \A j \in rounds : j <= i
    IN /\ rounds # {}
       /\ \A k \in 1..Len(messages[last].calls) :
             /\ last + k <= Len(messages)
             /\ messages[last + k].role = "tool"
             /\ messages[last + k].id = messages[last].calls[k].id

\* C3 happens: the second call of a concurrent round completed first and the
\* round's tool messages are in the conversation
C3_CompletedOutOfOrder ==
  /\ can_parallel
  /\ pc = "round_start"
  /\ order = << 2, 1 >>
  /\ messages[Len(messages)].role = "tool"

\* C4: for every interleaving of two supervisor startups on one runtime root,
\* with or without a stale lock file, at most one of them holds the singleton
\* lock: two supervisors never both proceed past _acquire_singleton_lock.
C4_AtMostOneLockHolder ==
  Cardinality({p \in Sups : sup_pc[p] = "holding"}) <= 1

\* C4 fails: both supervisors hold the lock, and neither found the pid of a
\* dead process in the lock file
C4_BothHold ==
  /\ \A p \in Sups : sup_pc[p] = "holding"
  /\ \A p \in Sups : existing_pid[p] \notin DeadPids

\* C5: at most one worker is between its return from _acquire_git_lock and
\* its call of _release_git_lock, so the git commands of two tools never
\* overlap.
C5_GitMutualExclusion ==
  Cardinality({w \in GitWorkers : git_pc[w] = "run"}) <= 1

\* C5 fails: one worker pushes while another one commits
C5_GitCommandsOverlap ==
  \E v, w \in GitWorkers :
     /\ v # w
     /\ git_pc[v] = "run" /\ GitSteps(git_op[v])[git_step[v]] = "push"
     /\ git_pc[w] = "run" /\ GitSteps(git_op[w])[git_step[w]] = "commit"

\* the ids at which the dispatch or eviction count can change: where a run
\* of a log starts and right after it ends (between two of them every id has
\* the counts of the one before it)
CountChanges ==
  LET runs == UNION ({dispatched[k] : k \in 1..Len(dispatched)}
                       \cup {evicted[k] : k \in 1..Len(evicted)})
  IN {r[1] : r \in runs} \cup {r[2] + 1 : r \in runs}

\* C6 as stated: within one supervisor lifetime every update_id causes at
\* most one dispatch, whatever the transport delivers and repeats.
C6_AtMostOneDispatch ==
  \A id \in CountChanges : id >= 1 => Occurrences(dispatched, id) <= 1

\* C6, as the dedup set of 4000 ids allows it: an update_id is dispatched
\* again only after it was evicted from the dedup set, so it causes at most
\* one dispatch as long as it is among the ids the set still holds.
C6_OneDispatchUntilEvicted ==
  \A id \in CountChanges :
     id >= 1 => Occurrences(dispatched, id) <= 1 + Occurrences(evicted, id)

\* C6 happens: the first update, a text of the owner, was delivered again
\* while the dedup set still held it, and it was dispatched once
C6_RepeatedDeliverySkipped ==
  /\ \E k \in 1..Len(redelivered) : redelivered[k] = "first"
  /\ SetContains(recent_update_ids, 1)
  /\ Occurrences(evicted, 1) = 0
  /\ Occurrences(dispatched, 1) = 1

BudgetLimitCount(msgs) ==
  Cardinality({i \in 1..Len(msgs) : msgs[i].kind = "budget_limit"})

\* C7: with a budget set, the loop never starts another round once a tool
\* round has ended with more than half of the budget spent; it then appends
\* one BUDGET LIMIT message, makes exactly one call without tools and
\* returns, with no tool run and no message appended after that message;
\* this happens at most once.
C7_ForcedClosureOnce ==
  /\ (pc = "round_start" /\ round_idx >= 1 /\ budget > 0)
        => 2 * accumulated.cost <= budget
  /\ BudgetLimitCount(messages) <= 1
  /\ closure_calls <= 1
  /\ BudgetLimitCount(messages) = 1 =>
        /\ messages[Len(messages)].kind = "budget_limit"
        /\ pc \in {"closure_call", "done"}
        /\ budget # NoBudget
  /\ pc = "closure_call" => (BudgetLimitCount(messages) = 1 /\ closure_calls = 0)
  /\ (pc = "done" /\ BudgetLimitCount(messages) = 1) =>
        (closure_calls = 1 /\ ret.kind \in {"closure", "finish_reason"})
  /\ closure_calls = 1 => (pc = "done" /\ BudgetLimitCount(messages) = 1)

\* C7 happens: a tool round ended with more than half of a budget of 6
\* spent and the loop
\* returned the answer of the closing call
C7_ClosedOverHalf ==
  /\ pc = "done"
  /\ budget = 6
  /\ closure_calls = 1
  /\ ret.kind = "closure"
  /\ messages[Len(messages)].kind = "budget_limit"

RECURSIVE SumTokens(_)
SumTokens(events) ==
  IF events = << >> THEN 0
  ELSE events[1].prompt_tokens + events[1].completion_tokens + SumTokens(Tail(events))

\* C8: when run_llm_loop returns, the accumulated prompt_tokens plus
\* completion_tokens equal the sum of those fields over the llm_round records
\* logged for the task.
C8_UsageMatchesRecords ==
  pc = "done" =>
    accumulated.prompt_tokens + accumulated.completion_tokens = SumTokens(round_events)

\* C8 fails: the loop returned after a closing call whose tokens are in the
\* accumulated usage and in no llm_round record
C8_ClosureCallUnlogged ==
  /\ pc = "done"
  /\ closure_calls = 1
  /\ accumulated.prompt_tokens + accumulated.completion_tokens > SumTokens(round_events)

\* C9: every tool message of the conversation carries a result string of at
\* most 3000 characters.
C9_ToolResultCapped ==
  \A i \in 1..Len(messages) :
     messages[i].role = "tool" => messages[i].len <= ToolResultCap

\* C9 fails: a result of 3001 characters is in the conversation as a tool
\* message of 3032 characters
C9_TruncatedOverCap ==
  \E i \in 1..Len(messages) :
     messages[i].role = "tool" /\ messages[i].len = ToolResultCap + 32

\* C10 as stated: every return of run_llm_loop is the content of an assistant
\* message with empty tool_calls (the reply of a round, or the reply to the
\* closing call, which is made without tools).
C10_ReturnsOnlyFinalContent ==
  pc = "done" => ret.kind \in {"final", "closure"}

\* C10, as the loop returns: the content of a round's reply that has no tool
\* calls; or the error text, after max_retries failed attempts of a round's
\* call; or, after the BUDGET LIMIT message, the content of the closing reply,
\* or the budget text when that call fails or answers with no content.
C10_ReturnKinds ==
  pc = "done" =>
    \/ /\ ret.kind = "final"
       /\ msg # NoMsg
       /\ msg.tool_calls = << >>
       /\ ret.len = msg.content_len
    \/ /\ ret.kind = "llm_error"
       /\ msg = NoMsg
       /\ attempt = MaxRetries
    \/ /\ ret.kind \in {"closure", "finish_reason"}
       /\ closure_calls = 1
       /\ messages[Len(messages)].kind = "budget_limit"

\* C10 happens: the loop returned the error text after three failed attempts
C10_ReturnedAfterRetries ==
  /\ pc = "done"
  /\ ret.kind = "llm_error"
  /\ attempt = MaxRetries

\* C11: a failed LLM call of a round is attempted at most 3 times with a wait
\* of at most 30 s between attempts; the error string is returned only after
\* the third failed attempt of the round; a failed attempt adds nothing to the
\* accumulated usage, appends no message and starts no tool.
C11_RetryThenError ==
  /\ [](/\ attempt <= MaxRetries
        /\ backoff <= BackoffCap
        /\ (ret.kind = "llm_error" => (pc = "done" /\ attempt = MaxRetries))
        /\ accumulated.rounds = Len(round_events))
  /\ [][(pc = "llm_call" /\ attempt' > attempt) =>
          /\ accumulated' = accumulated
          /\ messages' = messages
          /\ exec' = exec /\ handler' = handler /\ res' = res
          /\ pc' \in {"llm_call", "done"}
          /\ (pc' = "done" <=> attempt' = MaxRetries)]_vars

\* C11 happens: the second round failed three times, after waits of 2 s and
\* 4 s, and the loop returned the error with the usage of the first round
C11_ErrorWithEarlierUsage ==
  /\ pc = "done"
  /\ ret.kind = "llm_error"
  /\ round_idx = 2
  /\ attempt = MaxRetries
  /\ backoff = 4
  /\ accumulated.rounds = 1
  /\ accumulated.cost > 0

IsIncreasing(q) == \A i, j \in DOMAIN q : i < j => q[i] < q[j]

\* C12: the owner's messages are handled in the order they were delivered: a
\* later message neither enters nor leaves handle_chat_direct before an
\* earlier one.
C12_HandledInDeliveryOrder ==
  /\ IsIncreasing(begun)
  /\ IsIncreasing(ended)

\* C12 fails: the thread of the second message entered handle_chat_direct
\* and left it while the thread of the first message had not entered it
C12_LaterMessageHandledFirst ==
  /\ Len(chat_threads) >= 2
  /\ chat_threads[1] = "started"
  /\ chat_threads[2] = "finished"
  /\ begun = << 2 >>
  /\ ended = << 2 >>

\* C13: once an owner is stored, an update of another sender makes the
\* supervisor run no command, dispatch no message and put no
\* owner_message_injected event; when the update carries a sender and a chat,
\* the one reply is "Not authorized", sent to that chat.
C13_NonOwnerRejected ==
  (/\ last_update.owner_before # 0
   /\ last_update.upd.from_id # last_update.owner_before) =>
     /\ ~last_update.command
     /\ ~last_update.dispatch
     /\ ~last_update.event
     /\ (last_update.upd.from_id # 0 /\ last_update.upd.chat_id # 0) =>
           /\ last_update.reply = "Not authorized"
           /\ last_update.reply_chat = last_update.upd.chat_id

\* C13 happens: with user 1 stored as the owner and a message of the owner in
\* handling, user 2 sent a command and was answered "Not authorized"
C13_StrangerCommandRefused ==
  /\ state_file.owner_id = 1
  /\ Len(chat_threads) = 1
  /\ last_update.owner_before = 1
  /\ last_update.upd = ChatUpdate(2, 20, "command")
  /\ last_update.reply = "Not authorized"
  /\ ~last_update.command

\* C14: the owner is the sender of the first update that carried a sender and
\* a chat, owner_id and owner_chat_id are set together, and once set no
\* update changes either of them.
C14_OwnerPersistent ==
  /\ [](/\ state_file.owner_id = first_seen
        /\ (state_file.owner_id = 0 <=> state_file.owner_chat_id = 0))
  /\ [][/\ state_file.owner_id # 0 => state_file'.owner_id = state_file.owner_id
        /\ state_file.owner_chat_id # 0 =>
              state_file'.owner_chat_id = state_file.owner_chat_id]_vars

\* C14 happens: user 2 wrote first, from chat 20, and is still the owner after
\* a text message of user 1 from chat 10
C14_FirstSenderStaysOwner ==
  /\ state_file = [owner_id |-> 2, owner_chat_id |-> 20]
  /\ first_seen = 2
  /\ delivered >= 2
  /\ last_update.upd = ChatUpdate(1, 10, "text")
  /\ last_update.owner_before = 2

\* C15: a git tool that has acquired the git lock leaves git.lock removed when
\* its call ends, after its last step as after a failure of any step, and it
\* ends only through _release_git_lock.
C15_LockReleasedOnReturn ==
  [][\A w \in GitWorkers :
       (git_pc[w] # "idle" /\ git_pc'[w] = "idle") =>
          /\ git_pc[w] \in {"release_check", "release_unlink"}
          /\ git_ret[w] # "none"
          /\ ~git_lock']_vars

\* C15 happens: repo_write_commit of worker 1 failed at its push, the call
\* has returned and git.lock is gone
C15_ReleasedAfterFailedPush ==
  /\ git_op[1] = "repo_write_commit"
  /\ git_ret[1] = "push"
  /\ git_pc[1] = "idle"
  /\ git_pc[2] = "idle"
  /\ git_ret[2] = "none"
  /\ ~git_lock

\* C16: a supervisor that got SIGTERM or SIGINT and has ended has killed the
\* workers, saved the state with the current offset, written the queue
\* snapshot and removed the lock file.
C16_ShutdownReleasesLock ==
  (stop_flag /\ run_pc \in {"exited", "failed"}) =>
     /\ run_pc = "exited"
     /\ ~lock_present
     /\ saved_offset = run_offset
     /\ snapshot = QueueSnapshot(PENDING, RUNNING)

\* C16 fails: after the signal the main loop stopped and the workers were
\* killed, the save of the state raised, and the process ended with the lock
\* file in place
C16_LockLeftAfterFailedSave ==
  /\ stop_flag
  /\ run_pc = "failed"
  /\ failed_step = "save_state"
  /\ lock_present

\* C17: within one run_llm_loop invocation the reasoning effort of an LLM call
\* is never of lower rank than that of the call before it; it is at least
\* high for every call of round 5 or later and xhigh for every call of round
\* 10 or later, the closing call of the budget guard included.
C17_EffortNeverLowered ==
  /\ reasoning_rank(last_call.prev) <= reasoning_rank(last_call.effort)
  /\ reasoning_rank(active_effort) >= reasoning_rank(last_call.effort)
  /\ last_call.round >= 5 => reasoning_rank(last_call.effort) >= reasoning_rank("high")
  /\ last_call.round >= 10 => last_call.effort = "xhigh"

\* C17 happens: a task of the light profile reached round 10 with effort
\* high, was raised to xhigh there, and its closing call got xhigh
C17_ClosureInRoundTen ==
  /\ pc = "done"
  /\ active_model = "m_light"
  /\ last_call = [round |-> 10, kind |-> "closure", model |-> "m_light",
                  effort |-> "xhigh", prev |-> "xhigh"]

Places(t) ==
  Cardinality({place \in {"pending", "running", "terminal"} :
                 \/ place = "pending" /\ t \in PENDING
                 \/ place = "running" /\ t \in RUNNING
                 \/ place = "terminal" /\ t \in terminal})

\* C19: while the supervisor runs, every task that was created is in exactly
\* one of pending, running and terminal.
C19_TaskInExactlyOnePlace ==
  (InLoop /\ restarts = 0) => \A t \in Tasks : Places(t) = 1

\* C19 fails: /evolve stop has just taken a pending evolution task out of the
\* queue, and the task is neither pending nor running nor terminal
C19_DroppedByEvolveStop ==
  /\ run_pc = "drain"
  /\ restarts = 0
  /\ ~evolution_enabled
  /\ \E t \in Tasks : task_type[t] = "evolution" /\ Places(t) = 0

\* C20: when a supervisor has restarted after a crash, its pending queue holds
\* every task that was created and has no task_done event in the log.
C20_PendingRestoredAfterCrash ==
  run_pc = "restored" => \A t \in Tasks : t \notin terminal => t \in PENDING

\* C20 fails: the supervisor restarted with the offset past an owner message
\* whose task was in handling at the crash; the task has no task_done event
\* and is not in the pending queue
C20_ChatTaskLostByCrash ==
  /\ run_pc = "restored"
  /\ run_offset >= 1
  /\ \E t \in Tasks :
        /\ task_type[t] = "chat"
        /\ t \notin terminal
        /\ t \notin PENDING

----------------------------------------------------------------------------
----------------------------------------------------------------------------
\* the preference selector names a provider whose key exists
PreferenceApplies(selector, keys) ==
  /\ NamesProvider(Preference(selector))
  /\ ProviderNamed(Preference(selector)) \in keys

\* the provider the three rules give, "" when none of them applies
FirstOfThree(model, selector, keys) ==
  IF PreferenceApplies(selector, keys) THEN ProviderNamed(Preference(selector))
  ELSE IF resolve_by_model_prefix(strip(model), keys).kind = "ok"
  THEN resolve_by_model_prefix(strip(model), keys).provider
  ELSE IF resolve_fallback(strip(model), keys).kind = "ok"
  THEN resolve_fallback(strip(model), keys).provider
  ELSE ""

\* C22: for every non-empty model id and every set of configured keys,
\* ProviderConfig.resolve returns the provider of the first rule that applies:
\* the preferred provider if its key exists, else the provider matched by the
\* model-id prefix, else the first configured provider of the fallback order
C22_ResolveFirstMatch ==
  (/\ llm_result # NotCalled
   /\ strip(llm_model) # << >>
   /\ FirstOfThree(llm_model, llm_selector, llm_keys) # "")
     => /\ llm_result.kind = "ok"
        /\ llm_result.provider = FirstOfThree(llm_model, llm_selector, llm_keys)

\* the selector names zai, ZAI_API_KEY is not set, OPENROUTER_API_KEY is, and
\* the resolution of an anthropic/ model raised ValueError
C22_PreferenceWithoutKeyRaises ==
  /\ Preference(llm_selector) = ProviderChars["zai"]
  /\ "zai" \notin llm_keys
  /\ "openrouter" \in llm_keys
  /\ resolve_by_model_prefix(strip(llm_model), llm_keys).provider = "openrouter"
  /\ llm_result.kind = "ValueError"

\* the providers whose prefixes the model id matches
MatchedProviders(model) ==
  {prefix_map[i].provider : i \in {j \in 1..Len(prefix_map) : PrefixMatches(j, model)}}

\* C23: for a non-empty model id that matches no known pattern or whose
\* pattern maps only to providers without a key, the resolution returns a
\* provider that has a key, whenever at least one provider key is configured
C23_UnknownModelFallsBack ==
  (/\ llm_result # NotCalled
   /\ strip(llm_model) # << >>
   /\ llm_keys # {}
   /\ MatchedProviders(strip(llm_model)) \cap llm_keys = {})
     => /\ llm_result.kind = "ok"
        /\ llm_result.provider \in llm_keys

\* no preference is set, only OPENROUTER_API_KEY is configured, and the
\* resolution of gpt-5.3-codex raised ValueError
C23_CodexModelRaisesWithOpenRouterKey ==
  /\ Preference(llm_selector) = << >>
  /\ llm_keys = {"openrouter"}
  /\ lower(strip(llm_model)) = << "g", "p", "t", "-", "5", ".", "3", "-", "c", "o", "d", "e", "x" >>
  /\ llm_result.kind = "ValueError"

----------------------------------------------------------------------------
\* the call that just ended was exchange_code_for_tokens
ExchangeStep == \E query \in RedirectQueries, response \in TokenResponses :
                   ExchangeCodeForTokens(query, response)

\* what the exchange that just ended had to leave alone when it refused
RefusedUntouched ==
  /\ oa_last'.raised \in {"PKCEError", "TokenExchangeError"}
  /\ oa_requests' = oa_requests
  /\ oa_verifier' = oa_verifier
  /\ oa_state' = oa_state

\* C24 as stated: exchange_code_for_tokens posts a token request only if a
\* verifier was generated, the redirect carries a code and the redirect's state
\* is the state stored by the most recent get_authorization_url call; otherwise
\* it raises PKCEError or TokenExchangeError, posts nothing and leaves the
\* verifier and the state as they were
C24_ExchangeOnlyForIssuedState ==
  [][ExchangeStep =>
       LET allowed == /\ oa_verifier # {}
                      /\ QueryParam(oa_last'.query, "code") # {}
                      /\ oa_issued # << >>
                      /\ QueryParam(oa_last'.query, "state") = {oa_issued[Len(oa_issued)]}
       IN /\ oa_last'.sent => allowed
          /\ ~allowed => RefusedUntouched]_vars

\* a token request was posted although no authorization URL was ever made:
\* the verifier came from generate_pkce_pair and the redirect carried no state
C24_SentWithoutAuthorizationUrl ==
  /\ oa_issued = << >>
  /\ oa_state = {}
  /\ oa_last.sent
  /\ QueryParam(oa_last.query, "state") = {}
  /\ Len(oa_requests) = 1
  /\ oa_requests[1].code_verifier = oa_verifier

----------------------------------------------------------------------------
\* C25: updates of the state snapshot are serialized: when the main loop
\* changes a field by load_state, modify, save_state while another thread or
\* an event handler changes spent_usd, no update is lost: spent_usd never
\* decreases, and when no update is under way it is the sum of the costs added
C25_NoLostStateUpdate ==
  /\ [](~main_st.loaded => st_file.spent_usd = spent_total)
  /\ [][st_file'.spent_usd >= st_file.spent_usd]_vars

\* the main loop saved tg_offset from a copy loaded before a budget update of
\* another thread: the offset is on disk, the cost is gone
C25_BudgetUpdateOverwritten ==
  /\ ~main_st.loaded
  /\ main_update = "tg_offset"
  /\ st_file.tg_offset = 1
  /\ spent_total > 0
  /\ st_file.spent_usd = 0

----------------------------------------------------------------------------
\* the processing of the update delivered under id raised and the update was
\* not processed since: it is not among the ids recorded as processed
FailedAndNotProcessed(id) ==
  /\ id \in 1..Len(first_updates)
  /\ first_updates[id].kind = "raises"
  /\ _is_owner(owner_id, first_updates[id].from_id)
  /\ ~SetContains(recent_update_ids, id)
  /\ Occurrences(evicted, id) = 0

\* C26: the polling offset never moves past an update that was not
\* successfully processed: while an update whose processing raised is not
\* processed, the offset of the next poll still covers its id
C26_OffsetNotPastFailedUpdate ==
  \A id \in 1..Len(first_updates) : FailedAndNotProcessed(id) => offset <= id

\* the processing of the owner's first update raised, the next poll starts
\* after it, and nothing of it was dispatched
C26_FailedUpdateSkipped ==
  /\ FailedAndNotProcessed(1)
  /\ offset = 2
  /\ Occurrences(dispatched, 1) = 0

----------------------------------------------------------------------------
\* how many messages of a kind the conversation holds
CountKind(msgs, kind) == Cardinality({i \in 1..Len(msgs) : msgs[i].kind = kind})

\* 0.3 < task_cost / budget_remaining_usd <= 0.5
InNudgeBand(cost, b) == b > 0 /\ 10 * cost > 3 * b /\ 2 * cost <= b

\* C27: a soft budget nudge is appended at the end of a tool round exactly
\* when 0.3 < task_cost / budget_remaining_usd <= 0.5 and the round number is
\* a multiple of 10, and the loop then goes on to the next round; no other
\* step appends a nudge
C27_NudgeExactlyInBand ==
  [][LET nudges == CountKind(messages', "budget_info") - CountKind(messages, "budget_info")
         due == /\ pc = "tools"
                /\ pc' # "tools"
                /\ InNudgeBand(accumulated.cost, budget)
                /\ round_idx % 10 = 0
     IN /\ nudges = IF due THEN 1 ELSE 0
        /\ due => /\ pc' = "round_start"
                  /\ messages'[Len(messages')].kind = "budget_info"]_vars

\* round 20 ended with exactly half of a budget of 40 spent and was nudged,
\* after round 10 had ended with a quarter of it spent and was not
C27_NudgedAtHalfNotAtThreeTenths ==
  /\ budget = 40
  /\ round_idx = 20
  /\ pc = "round_start"
  /\ accumulated.cost = 20
  /\ CountKind(messages, "budget_info") = 1
  /\ messages[Len(messages)].kind = "budget_info"

----------------------------------------------------------------------------
\* C28: the head of every round appends all owner messages then waiting in
\* the injection queue to the conversation as user messages in the order they
\* were enqueued, right after the messages already there, before any
\* self-check message of the round and before the round's LLM call; the queue
\* is empty afterwards
C28_DrainedInOrderAtRoundStart ==
  [][(pc = "round_start" /\ pc' # "round_start") =>
        LET n == Len(incoming)
            old == Len(messages)
        IN /\ pc' = "llm_call"
           /\ round_idx' = round_idx + 1
           /\ incoming' = << >>
           /\ Len(messages') >= old + n
           /\ \A k \in 1..n : messages'[old + k] = OwnerMsg(incoming[k])
           /\ \A j \in (old + n + 1)..Len(messages') : messages'[j] = SelfCheckMsg
           /\ Len(round_events') = Len(round_events)]_vars

\* round 20 began with two owner messages waiting: they stand in enqueue order
\* in front of the self-check message, and the LLM call of the round is next
C28_TwoDrainedBeforeSelfCheck ==
  /\ round_idx = 20
  /\ pc = "llm_call"
  /\ Len(messages) >= 3
  /\ messages[Len(messages) - 2] = OwnerMsg(1)
  /\ messages[Len(messages) - 1] = OwnerMsg(2)
  /\ messages[Len(messages)] = SelfCheckMsg

----------------------------------------------------------------------------
\* C29: run_llm_loop appends exactly one self-check system message at the
\* head of each round whose number is a positive multiple of 20 and none in
\* any other round or step, however many attempts the round's LLM call needs
C29_OneSelfCheckPerTwentyRounds ==
  /\ [](CountKind(messages, "self_check") = round_idx \div SoftCheckInterval)
  /\ [][CountKind(messages', "self_check") - CountKind(messages, "self_check")
          = IF /\ round_idx' = round_idx + 1
               /\ round_idx' % SoftCheckInterval = 0
            THEN 1 ELSE 0]_vars

\* the LLM call of round 40 failed twice and is tried a third time; the
\* conversation holds the self-checks of round 20 and of round 40, no more
C29_ThirdAttemptOfRoundForty ==
  /\ round_idx = 40
  /\ pc = "llm_call"
  /\ attempt = 2
  /\ CountKind(messages, "self_check") = 2

----------------------------------------------------------------------------
\* the five steps of repo_write_commit in the order the claim gives them
WriteCommitOrder == << "checkout", "write_text", "add", "commit", "push" >>

IsPrefix(s, t) == Len(s) <= Len(t) /\ SubSeq(t, 1, Len(s)) = s

\* C30: repo_write_commit runs checkout, file write, git add, git commit and
\* git push in that order and stops at the first failing step: after it no
\* step runs, and an error the call returns names that step; called with a
\* blank commit message it returns at once, without the lock and without a step
C30_StepsInOrderStopAtFailure ==
  /\ [](\A w \in GitWorkers :
          git_op[w] = "repo_write_commit" =>
            /\ IsPrefix(git_log[w], WriteCommitOrder)
            /\ git_ret[w] = "OK" => git_log[w] = WriteCommitOrder
            /\ git_ret[w] \in {WriteCommitOrder[i] : i \in 1..5} =>
                 /\ git_log[w] # << >>
                 /\ git_log[w][Len(git_log[w])] = git_ret[w]
                 /\ git_pc[w] # "run"
            /\ strip(git_text[w]) = << >> =>
                 /\ git_ret[w] = MustBeNonEmpty
                 /\ git_pc[w] = "idle"
                 /\ git_log[w] = << >>)
  /\ [][\A w \in GitWorkers :
          git_op'[w] = "repo_write_commit" =>
            /\ (git_log'[w] # git_log[w] /\ git_log'[w] # << >>) =>
                 /\ git_pc[w] = "run"
                 /\ git_ret[w] = "none"
                 /\ git_log'[w] = Append(git_log[w], WriteCommitOrder[Len(git_log[w]) + 1])
            /\ (git_pc[w] = "idle" /\ git_pc'[w] # "idle") =>
                 strip(git_text'[w]) # << >>]_vars

\* C30 happens: repo_write_commit of worker 1 failed at its commit after
\* three steps and has returned that error, while worker 2 called it with a
\* commit message of one blank and got the refusal
C30_FailedCommitAndBlankMessage ==
  /\ git_op[1] = "repo_write_commit"
  /\ git_ret[1] = "commit"
  /\ git_log[1] = << "checkout", "write_text", "add", "commit" >>
  /\ git_pc[1] = "idle"
  /\ git_op[2] = "repo_write_commit"
  /\ git_text[2] = << " " >>
  /\ git_ret[2] = MustBeNonEmpty
  /\ git_log[2] = << >>

----------------------------------------------------------------------------
\* C31: once a code-mutating tool call has completed in a round, every later
\* LLM call of the task, the closing call included, is made with the model of
\* the code_task profile; the switch leaves the reasoning effort at least as
\* high as it was, and the active model never leaves the code model again
C31_CodeProfileKept ==
  /\ [](code_round > 0 => active_model = ModelProfile("code_task").model)
  /\ [][/\ (code_round' > 0 /\ last_call' # last_call) =>
             last_call'.model = ModelProfile("code_task").model
        /\ reasoning_rank(active_effort') >= reasoning_rank(active_effort)
        /\ active_model = ModelProfile("code_task").model =>
             active_model' = active_model]_vars

\* C31 happens: the first code tool of a task completed in round 6, the
\* effort had been raised to xhigh by tool errors, and the call of round 7
\* went to the code model with effort xhigh
C31_CodeModelAfterRoundSix ==
  /\ code_round = 6
  /\ last_call = [round |-> 7, kind |-> "round", model |-> "m_code",
                  effort |-> "xhigh", prev |-> "xhigh"]

----------------------------------------------------------------------------
\* C32: one call of _drain_worker_events dispatches at most 200 events, each
\* the head of the queue, and returns before 200 only on an empty queue; the
\* events it leaves are exactly those put after the last dispatched one, in
\* the order of their puts, so later calls dispatch them and none is lost or
\* reordered
C32_DrainBoundedInOrder ==
  /\ [](/\ ev_handled <= max_events
        /\ ev_q = EventRun(ev_last + 1, ev_put))
  /\ [][/\ ev_last' # ev_last =>
             /\ ev_q # << >>
             /\ ev_last' = Head(ev_q)
             /\ ev_last' = ev_last + 1
             /\ ev_handled' = ev_handled + 1
        /\ (ev_pc = "drain" /\ ev_pc' = "idle") =>
             (ev_q = << >> \/ ev_handled = max_events)]_vars

\* C32 happens: a call found more than 200 events and has returned after
\* dispatching events 1 to 200; event 201 and two later ones are queued
C32_ReturnedAtLimit ==
  /\ ev_pc = "idle"
  /\ ev_handled = max_events
  /\ ev_last = 200
  /\ ev_q = << 201, 202, 203 >>

\* the events left by that call were dispatched by the next one
C32_RemainderDispatchedLater ==
  /\ ev_pc = "idle"
  /\ ev_handled = 3
  /\ ev_last = 203
  /\ ev_q = << >>

----------------------------------------------------------------------------
C33_AssignAfterPollError ==
  /\ it_pc = "calls"
  /\ IterationCalls[it_call] = "assign_tasks"
  /\ it_size = 0
  /\ it_errors = << "telegram_poll_error" >>

----------------------------------------------------------------------------
\* the commands _handle_command knows
KnownCommands == {CmdStatus, CmdQueue, CmdCancel, CmdEvolve, CmdHelp, CmdStart}

Replied == om_out.reply # "none"
Dispatched == om_out.dispatch_text # NoDispatch

\* C34: every owner message with a text is handled in exactly one way, by a
\* command's reply or by one dispatch, and a text that starts with "/" but
\* whose command word is none of the known commands is dispatched as it is
C34_CommandOrDispatch ==
  (om_out.called /\ strip(om_text) # << >>) =>
     /\ Replied # Dispatched
     /\ (/\ startswith(strip(om_text), Slash)
         /\ FirstWord(strip(om_text)) \notin KnownCommands) =>
           /\ Dispatched
           /\ om_out.dispatch_text = strip(om_text)

\* C34 fails: the owner wrote "/helpme"; the command list was sent back and
\* the message was not dispatched
C34_HelpmeAnsweredAsHelp ==
  /\ om_text = << "/", "h", "e", "l", "p", "m", "e" >>
  /\ om_out.called
  /\ om_out.reply = "Commands"
  /\ om_out.dispatch_text = NoDispatch

----------------------------------------------------------------------------
\* C35: the provider prefix of a model id is removed exactly when the
\* chosen provider expects bare model ids; a model routed to openrouter
\* keeps its full prefixed id, whichever resolution step chose the provider

\* the providers that expect bare model ids
BareIdProviders == { "openai", "openai-codex", "zai", "opencode" }

C35_PrefixRemovedForBareIdsOnly ==
  llm_result.kind = "ok" =>
    llm_result.model = IF llm_result.provider \in BareIdProviders
                       THEN _strip_provider_prefix(strip(llm_model))
                       ELSE strip(llm_model)

\* reached: no preference is set, the prefix step routes "anthropic/c" to
\* openrouter and hands it the bare id "c"
C35_OpenRouterGetsBareId ==
  /\ llm_model = << "a", "n", "t", "h", "r", "o", "p", "i", "c", "/", "c" >>
  /\ Preference(llm_selector) = << >>
  /\ llm_result.kind = "ok"
  /\ llm_result.provider = "openrouter"
  /\ llm_result = resolve_by_model_prefix(llm_model, llm_keys)
  /\ llm_result.model = << "c" >>

----------------------------------------------------------------------------
\* C36: no injected owner message is lost: every message put on the task's
\* injection queue before run_llm_loop returns stands in the conversation
\* when the loop returns

\* the owner messages put on the injection queue so far
PutOnQueue == 1..injected_total

\* the owner message n stands in the conversation
Appended(n) == \E j \in 1..Len(messages) : messages[j] = OwnerMsg(n)

C36_NoInjectedMessageLost ==
  pc = "done" => \A n \in PutOnQueue : Appended(n)

\* reached: the loop returned the final answer of its first round while an
\* owner message, put during the LLM call of that round, waits in the queue
C36_ReturnedWithMessageQueued ==
  /\ pc = "done"
  /\ ret.kind = "final"
  /\ round_idx = 1
  /\ incoming = << 1 >>
  /\ ~Appended(1)

----------------------------------------------------------------------------
\* C37: a call to _acquire_git_lock eventually returns provided every live
\* holder eventually releases the lock; a worker killed while it holds
\* git.lock does not block later git tool calls forever

\* the worker w stands in the poll loop of _acquire_git_lock
Acquiring(w) == git_pc[w] \in {"acquire_check", "acquire_write"}

C37_AcquireEventuallyReturns ==
  \A w \in GitWorkers : Acquiring(w) ~> ~Acquiring(w)

\* the workers that wrote git.lock and have not yet left their finally block
LiveHolders == { w \in GitWorkers : git_pc[w] \in {"run", "release_check", "release_unlink"} }

\* reached: git.lock exists, its writer was killed in the middle of its git
\* commands, no live worker is left to remove the file, and the other worker
\* polls in _acquire_git_lock
C37_PollingOnLockOfKilledWorker ==
  /\ git_lock
  /\ LiveHolders = {}
  /\ \E w \in GitWorkers :
        /\ git_ret[w] = "killed"
        /\ git_pc[w] = "idle"
        /\ git_log[w] # << >>
  /\ \E w \in GitWorkers : git_pc[w] = "acquire_check"
  /\ \A w \in GitWorkers : git_pc[w] # "acquire_write"

----------------------------------------------------------------------------
\* C38: a supervisor that starts while no other supervisor process is alive
\* always acquires the singleton lock, whatever lock file is present: it is
\* never turned away by _acquire_singleton_lock

C38_AloneAlwaysAcquires ==
  \A p \in Sups : Alone(p) => sup_pc[p] # "refused"

\* reached: the supervisor, alone, found the lock file that the image before
\* it wrote under the same pid, took its own pid for a live owner and is
\* about to exit without the lock
C38_RefusedByOwnPid ==
  \E p \in Sups :
     /\ Alone(p)
     /\ sup_pc[p] = "refused"
     /\ existing_pid[p] = p
     /\ lock_file.pid = p
     /\ lock_fd[p] = 0

----------------------------------------------------------------------------
\* C39: run_llm_loop eventually returns for every behaviour of the LLM and
\* the tools in which each individual call returns, with and without a
\* budget and with and without reported costs

C39_LoopEventuallyReturns == <>(tm.pc = "done")

\* reached: without a budget the loop has finished the tool round of its
\* fortieth round, nothing has been returned, and it goes for the next round
C39_NextRoundAfterForty ==
  /\ tm.budget = NoBudget
  /\ tm.round = 2 * SoftCheckInterval
  /\ tm.pc = "round_start"
  /\ tm.ret = "none"

----------------------------------------------------------------------------
\* C40: the usage in the single llm_usage event that handle_task emits for a
\* task equals the sum of the usage of every successful LLM call made for
\* that task over all tool rounds

\* the llm_usage events among the events of the task
UsageEvents == { k \in 1..Len(ag.events) : ag.events[k].type = "llm_usage" }

C40_UsageEventIsTaskTotal ==
  ag.pc = "done" =>
    /\ Cardinality(UsageEvents) = 1
    /\ \A k \in UsageEvents : ag.events[k].usage = ag.total

\* reached: the task made two successful LLM calls, a tool round and the
\* final answer, and its llm_usage event carries the usage of the second
\* call only
C40_EventCarriesLastCallOnly ==
  /\ ag.pc = "done"
  /\ ag.text = "content"
  /\ ag.calls = 2
  /\ ag.last_usage = [prompt_tokens |-> 2, completion_tokens |-> 1, cost |-> 4]
  /\ ag.total = [prompt_tokens |-> 3, completion_tokens |-> 1, cost |-> 7]
  /\ ag.events[1] = LlmUsageEvent(ag.last_usage)

====
